---------------------------- MODULE Spec2Model ----------------------------
(***************************************************************************)
(* A model of the belle-epoque data-preparation scripts: the projection of *)
(* geographic points into local coordinates, the street filters, polygon   *)
(* decimation, height estimation, and the scripts' reads and writes of     *)
(* streets.json and buildings.json.                                        *)
(*                                                                         *)
(* Units.  Degrees are integers in microdegrees (1e-6 degree).  A stored   *)
(* local coordinate is an integer number of tenths of a metre, which is    *)
(* what round(v, 1) produces; an unrounded local coordinate is an integer  *)
(* number of millimetres (a microdegree times 87000 or 111000 m/degree is  *)
(* a whole number of millimetres).                                         *)
(***************************************************************************)
EXTENDS Integers, Sequences, FiniteSets, TLC

VARIABLES
    geo,        \* projection: the geographic point given to a projection function
    frame,      \* projection: the Reference Frame (center) the caller uses
    local,      \* projection: the function applied and the local point it returned
    poly,       \* simplification: the footprint (local points) of one shapefile record
    simplified, \* simplification: the script that decimated it and the points it kept
    dims,       \* height: the (width, depth) of the footprints of a batch of buildings
    heights,    \* height: the script and the heights it has estimated so far
    streetsJson,    \* src/data/streets.json: the list under its 'streets' key
    buildingsJson,  \* src/data/buildings.json: the list under its 'buildings' key
    frames,     \* history: the frame each file's coordinates are expressed in, as the
                \* shift (x, z in millimetres) from the frame centered on DowntownCenter
    run,        \* the script last started: its position, locals and outcome
    nruns,      \* the number of scripts started so far
    osm,        \* what the Overpass API holds: the street ways
    shp,        \* the shapes of the county's building-footprint shapefile
    rows,       \* what the Overture buildings query returns
    documents,  \* the buildings document of each run of fetch-overture-data.py so far
    segments,   \* what the Overture roads query returns
    roadsDoc,   \* the streets list fetch_roads returned
    landuseWays,    \* what the Overpass land-use query returns: the ways
    landuseJson,    \* src/data/landuse.json: the list under its 'features' key
    disk,       \* saving: the content of the output file as a reader finds it
    writer      \* saving: the script saving the file, its position and its buffer

projVars == <<geo, frame, local>>
simpVars == <<poly, simplified>>
heightVars == <<dims, heights>>
fileVars == <<streetsJson, buildingsJson, frames, run, nruns, osm, shp>>
sourceVars == <<osm, shp>>
fetchVars == <<rows, documents>>
featureVars == <<segments, roadsDoc, landuseWays, landuseJson>>
writeVars == <<disk, writer>>

vars == <<geo, frame, local, poly, simplified, dims, heights,
          streetsJson, buildingsJson, frames, run, nruns, osm, shp, rows, documents,
          segments, roadsDoc, landuseWays, landuseJson, disk, writer>>

\* What each specification leaves alone: the state of the other concerns.
notProj == <<simpVars, heightVars, fileVars, fetchVars, featureVars, writeVars>>
notSimp == <<projVars, heightVars, fileVars, fetchVars, featureVars, writeVars>>
notHeight == <<projVars, simpVars, fileVars, fetchVars, featureVars, writeVars>>
notFiles == <<projVars, simpVars, heightVars, fetchVars, featureVars, writeVars>>
notFetch == <<projVars, simpVars, heightVars, fileVars, featureVars, writeVars>>
notFeatures == <<projVars, simpVars, heightVars, fileVars, fetchVars, writeVars>>
notWrite == <<projVars, simpVars, heightVars, fileVars, fetchVars, featureVars>>

NoLocal == [fn |-> "none", x |-> 0, z |-> 0]
NoSimplified == [fn |-> "none", points |-> <<>>]
NoHeights == [script |-> "none", hs |-> <<>>]

IdleProject ==
    /\ frame = [lat |-> 0, lon |-> 0]
    /\ geo = [lat |-> 0, lon |-> 0]
    /\ local = NoLocal

IdleSimplify ==
    /\ poly = <<>>
    /\ simplified = NoSimplified

IdleHeight ==
    /\ dims = <<>>
    /\ heights = NoHeights

NoRegion == [min_x |-> 0, max_x |-> 0, min_z |-> 0, max_z |-> 0]
NoRun == [script |-> "none", pc |-> "none", outcome |-> "none", report |-> "none",
          examined |-> <<>>, region |-> NoRegion,
          center |-> [lat |-> 0, lon |-> 0], writes |-> <<>>]
NoOsm == [ways |-> <<>>]
SameFrame == [streets |-> <<0, 0>>, buildings |-> <<0, 0>>]

IdleFetch ==
    /\ rows = <<>>
    /\ documents = <<>>

\* A list a script has still to produce, and one it has produced
NotYet == [done |-> FALSE, list |-> <<>>]
Produced(list) == [done |-> TRUE, list |-> list]

NoWriter ==
    [script |-> "none", path |-> "none", pc |-> "none", outcome |-> "none",
     previous |-> <<>>, doc |-> <<>>, written |-> 0]

IdleWrite == disk = <<>> /\ writer = NoWriter

IdleFeatures ==
    /\ segments = <<>>
    /\ roadsDoc = NotYet
    /\ landuseWays = <<>>
    /\ landuseJson = NotYet

IdleFiles ==
    /\ streetsJson = <<>>
    /\ buildingsJson = <<>>
    /\ frames = SameFrame
    /\ run = NoRun
    /\ nruns = 0
    /\ osm = NoOsm
    /\ shp = <<>>

\* The number of script runs a behaviour holds.
MaxRuns == 2

-----------------------------------------------------------------------------
(* Arithmetic helpers *)

Abs(n) == IF n < 0 THEN -n ELSE n

Min(a, b) == IF a <= b THEN a ELSE b

Max(a, b) == IF a >= b THEN a ELSE b

\* Python's round(v, 1) on a value of n/unit metres-tenths: the nearest whole
\* number of units, an exact tie going to the even neighbour.
RoundDiv(n, unit) ==
    LET q == n \div unit
        r == n % unit
    IN  IF 2 * r < unit THEN q
        ELSE IF 2 * r > unit THEN q + 1
        ELSE IF q % 2 = 0 THEN q ELSE q + 1

\* round(v, 1) of a value in millimetres, in tenths of a metre.
Round1 (mm) == RoundDiv(mm, 100)

-----------------------------------------------------------------------------
(* Reference frames and projection functions *)

LAT_TO_METERS == 111000
LON_TO_METERS == 87000

\* extract_downtown.py, extract_streets.py: CENTER_LAT, CENTER_LON
DowntownCenter == [lat |-> 38520000, lon |-> -89983900]
\* scripts/fetch-overture-data.py: CENTER_LAT, CENTER_LON
OvertureCenter == [lat |-> 38517000, lon |-> -89984200]
\* fetch_landuse.py: CENTER_LAT, CENTER_LON
LanduseCenter == [lat |-> 38521326, lon |-> -89984205]
\* recenter_data.py: FOUNTAIN_LAT, FOUNTAIN_LON (a center rebuild_all.py may derive)
FountainCenter == [lat |-> 38522207, lon |-> -89984903]

\* extract_downtown.py convert_to_local: unrounded, in millimetres
downtown_convert_to_local(lon, lat) ==
    LET x == ((lon - DowntownCenter.lon) * LON_TO_METERS) \div 1000
        z == (-(lat - DowntownCenter.lat) * LAT_TO_METERS) \div 1000
    IN  <<x, z>>

\* extract_downtown.py main: local_points.append([round(lx, 1), round(lz, 1)])
downtown_local_point(lon, lat) ==
    LET l == downtown_convert_to_local(lon, lat)
    IN  <<Round1(l[1]), Round1(l[2])>>

\* The two scale factors exchanged
streets_convert_to_local_swapped(lon, lat) ==
    LET x == ((lon - DowntownCenter.lon) * LAT_TO_METERS) \div 1000
        z == (-(lat - DowntownCenter.lat) * LON_TO_METERS) \div 1000
    IN  <<Round1(x), Round1(z)>>

\* extract_streets.py convert_to_local
streets_convert_to_local(lon, lat) ==
    LET x == ((lon - DowntownCenter.lon) * LON_TO_METERS) \div 1000
        z == (-(lat - DowntownCenter.lat) * LAT_TO_METERS) \div 1000
    IN  <<Round1(x), Round1(z)>>

\* rebuild_all.py to_local; CENTER_LON, CENTER_LAT are the globals derived in Step 1
rebuild_to_local(lon, lat, CENTER_LON, CENTER_LAT) ==
    LET x == ((lon - CENTER_LON) * LON_TO_METERS) \div 1000
        z == (-(lat - CENTER_LAT) * LAT_TO_METERS) \div 1000
    IN  <<Round1(x), Round1(z)>>

\* fetch_landuse.py to_local measured from the downtown centre instead of its own
landuse_to_local_other_center(lon, lat) ==
    LET x == ((lon - DowntownCenter.lon) * LON_TO_METERS) \div 1000
        z == (-(lat - DowntownCenter.lat) * LAT_TO_METERS) \div 1000
    IN  <<Round1(x), Round1(z)>>

\* fetch_landuse.py to_local
landuse_to_local(lon, lat) ==
    LET x == ((lon - LanduseCenter.lon) * LON_TO_METERS) \div 1000
        z == (-(lat - LanduseCenter.lat) * LAT_TO_METERS) \div 1000
    IN  <<Round1(x), Round1(z)>>

\* 111000 * math.cos(math.radians(38.5170)) = 86848.999..., in metres per degree
OVERTURE_LON_METERS == 86849

\* scripts/fetch-overture-data.py latlon_to_local, at the only center it is
\* called with (CENTER_LON, CENTER_LAT): z carries no sign flip.
latlon_to_local(lon, lat, center_lon, center_lat) ==
    LET x == ((lon - center_lon) * OVERTURE_LON_METERS) \div 1000
        z == ((lat - center_lat) * 111000) \div 1000
    IN  <<Round1(x), Round1(z)>>

-----------------------------------------------------------------------------
(* Polygon decimation *)

\* [points[i] for i in range(0, len(points), step)]
Decimate(points, step) ==
    [k \in 1..((Len(points) + step - 1) \div step) |-> points[(k - 1) * step + 1]]

\* simplify_polygon with step = max(1, len(points) // 40)
simplify_polygon_step_forty(points) ==
    IF Len(points) <= 4 THEN points
    ELSE LET step == Max(1, Len(points) \div 40)
             kept == Decimate(points, step)
         IN  IF kept[1] # kept[Len(kept)] THEN Append(kept, kept[1]) ELSE kept

\* simplify_polygon with "len(points) < 4" for "len(points) <= 4": a
\* footprint of exactly 4 points goes through the decimation and the closing.
simplify_polygon_under_four(points) ==
    IF Len(points) < 4 THEN points
    ELSE LET step == Max(1, Len(points) \div 20)
             kept == Decimate(points, step)
         IN  IF kept[1] # kept[Len(kept)] THEN Append(kept, kept[1]) ELSE kept

\* extract_downtown.py simplify_polygon
simplify_polygon(points) ==
    IF Len(points) <= 4 THEN points
    ELSE LET step == Max(1, Len(points) \div 20)
             kept == Decimate(points, step)
         IN  IF kept[1] # kept[Len(kept)] THEN Append(kept, kept[1]) ELSE kept

\* rebuild_all.py Step 3, "# Simplify": the inline decimation of local_points
rebuild_simplify(local_points) ==
    LET step == Max(1, Len(local_points) \div 20)
    IN  Decimate(local_points, step)

-----------------------------------------------------------------------------
(* Height estimation.  An area is in square tenths of a metre (0.01 m2); a *)
(* height is kept exactly, as a multiple of 1/HeightScale metres.          *)

HeightScale == 1200 * 100

\* A slip in the third piece's base (10 for 12): the estimate then drops at 200 m2.
downtown_estimate_height_low_third(width, depth) ==
    LET area == width * depth
    IN  IF area < 50 * 100 THEN 5 * HeightScale + 120 * area
        ELSE IF area < 200 * 100 THEN 8 * HeightScale + 40 * area
        ELSE IF area < 500 * 100 THEN 10 * HeightScale + 24 * area
        ELSE 18 * HeightScale + Min(15 * area, 25 * HeightScale)

\* extract_downtown.py main: "# Estimate height based on footprint area"
downtown_estimate_height(width, depth) ==
    LET area == width * depth
    IN  IF area < 50 * 100 THEN 5 * HeightScale + 120 * area
        ELSE IF area < 200 * 100 THEN 8 * HeightScale + 40 * area
        ELSE IF area < 500 * 100 THEN 12 * HeightScale + 24 * area
        ELSE 18 * HeightScale + Min(15 * area, 25 * HeightScale)

\* The last piece without its cap: 18 + area / 80 for 18 + min(area / 80, 25).
rebuild_estimate_height_uncapped(width, depth) ==
    LET area == width * depth
    IN  IF area < 50 * 100 THEN 5 * HeightScale + 120 * area
        ELSE IF area < 200 * 100 THEN 8 * HeightScale + 40 * area
        ELSE IF area < 500 * 100 THEN 12 * HeightScale + 24 * area
        ELSE 18 * HeightScale + 15 * area

\* rebuild_all.py Step 3: the same estimate, written out again
rebuild_estimate_height(width, depth) ==
    LET area == width * depth
    IN  IF area < 50 * 100 THEN 5 * HeightScale + 120 * area
        ELSE IF area < 200 * 100 THEN 8 * HeightScale + 40 * area
        ELSE IF area < 500 * 100 THEN 12 * HeightScale + 24 * area
        ELSE 18 * HeightScale + Min(15 * area, 25 * HeightScale)

\* "if width < 3 or depth < 3: continue"
TooTiny(width, depth) == width < 3 * 10 \/ depth < 3 * 10

\* One pass of the per-building loop body from the bounds to the size entry:
\* skipped when tiny, else the estimate and round(height, 1) in tenths.
HeightEntry(h, width, depth) ==
    IF TooTiny(width, depth)
    THEN [skipped |-> TRUE, height |-> 0, size_h |-> 0]
    ELSE [skipped |-> FALSE, height |-> h, size_h |-> RoundDiv(h, HeightScale \div 10)]

-----------------------------------------------------------------------------
(* The street scripts: finalize_streets.py, align_streets.py,              *)
(* fix_alignment.py and refine_alignment.py.  A street is a record         *)
(* [id, name, points]; a building is [footprint, position]; a point is     *)
(* <<x, z>> in tenths of a metre.                                          *)

SetMin(S) == CHOOSE m \in S : \A v \in S : m <= v
SetMax(S) == CHOOSE m \in S : \A v \in S : m >= v

SeqRange(q) == {q[i] : i \in DOMAIN q}

\* [pt[0] for b in buildings for pt in b['footprint']] (and pt[1])
bldg_xs(buildings) ==
    UNION {{pt[1] : pt \in SeqRange(b.footprint)} : b \in SeqRange(buildings)}
bldg_zs(buildings) ==
    UNION {{pt[2] : pt \in SeqRange(b.footprint)} : b \in SeqRange(buildings)}

\* [pt[0] for s in streets for pt in s['points']] (and pt[1])
street_xs(streets) ==
    UNION {{pt[1] : pt \in SeqRange(st.points)} : st \in SeqRange(streets)}
street_zs(streets) ==
    UNION {{pt[2] : pt \in SeqRange(st.points)} : st \in SeqRange(streets)}

\* The buildings' bounding box widened by a margin (in tenths of a metre).
BuildingRegion(buildings, margin) ==
    [min_x |-> SetMin(bldg_xs(buildings)) - margin,
     max_x |-> SetMax(bldg_xs(buildings)) + margin,
     min_z |-> SetMin(bldg_zs(buildings)) - margin,
     max_z |-> SetMax(bldg_zs(buildings)) + margin]

\* finalize_streets.py: min_x <= pt[0] <= max_x and min_z <= pt[1] <= max_z
finalize_in_bounds(pt, r) ==
    r.min_x <= pt[1] /\ pt[1] <= r.max_x /\ r.min_z <= pt[2] /\ pt[2] <= r.max_z

\* An off-by-one in the length test: a single surviving point is enough.
finalize_keeps_one(pts_in_bounds) == Len(pts_in_bounds) >= 1

\* finalize_streets.py: if len(pts_in_bounds) >= 2
finalize_keeps(pts_in_bounds) == Len(pts_in_bounds) >= 2

\* The clip-to-region filter moving the points it keeps east by 27 m, as
\* align_streets.py does
finalize_filter_shifting(streets, r) ==
    LET clipped == [i \in 1..Len(streets) |->
                      [streets[i] EXCEPT !.points =
                          SelectSeq(@, LAMBDA pt : finalize_in_bounds(pt, r))]]
        kept == SelectSeq(clipped, LAMBDA s : finalize_keeps(s.points))
    IN  [i \in 1..Len(kept) |->
            [kept[i] EXCEPT !.points =
                [j \in 1..Len(@) |-> <<@[j][1] + 27 * 10, @[j][2]>>]]]

\* The clip-to-region filter with "filtered.insert(0, s)" in place of
\* "filtered.append(s)": the surviving streets come out last first.
finalize_filter_prepending(streets, r) ==
    LET clipped == [i \in 1..Len(streets) |->
                      [streets[i] EXCEPT !.points =
                          SelectSeq(@, LAMBDA pt : finalize_in_bounds(pt, r))]]
        kept == SelectSeq(clipped, LAMBDA s : finalize_keeps(s.points))
    IN  [i \in 1..Len(kept) |-> kept[Len(kept) + 1 - i]]

\* finalize_streets.py "# Filter and clip streets"
finalize_filter(streets, r) ==
    LET clipped == [i \in 1..Len(streets) |->
                      [streets[i] EXCEPT !.points =
                          SelectSeq(@, LAMBDA pt : finalize_in_bounds(pt, r))]]
    IN  SelectSeq(clipped, LAMBDA s : finalize_keeps(s.points))

\* The any-point test with strict comparisons
align_in_bounds_strict(pt, r) ==
    r.min_x < pt[1] /\ pt[1] < r.max_x /\ r.min_z < pt[2] /\ pt[2] < r.max_z

\* align_streets.py: any(min_x <= pt[0] <= max_x and min_z <= pt[1] <= max_z ...)
align_in_bounds(pt, r) ==
    r.min_x <= pt[1] /\ pt[1] <= r.max_x /\ r.min_z <= pt[2] /\ pt[2] <= r.max_z

align_filter(streets, r) ==
    SelectSeq(streets, LAMBDA s : \E j \in 1..Len(s.points) : align_in_bounds(s.points[j], r))

\* fix_alignment.py: in_bounds = any(...)
fix_in_bounds(pt, r) ==
    r.min_x <= pt[1] /\ pt[1] <= r.max_x /\ r.min_z <= pt[2] /\ pt[2] <= r.max_z

fix_filter(streets, r) ==
    SelectSeq(streets, LAMBDA s : \E j \in 1..Len(s.points) : fix_in_bounds(s.points[j], r))

\* align_streets.py: OFFSET_X = 27 (metres), applied with round(.., 1)
OFFSET_X == 27

\* The loop over the streets with the rounding alone, OFFSET_X not added
align_shift_rounding_only(streets) ==
    [i \in 1..Len(streets) |->
        [streets[i] EXCEPT !.points =
            [j \in 1..Len(@) |-> <<Round1(@[j][1] * 100), Round1(@[j][2] * 100)>>]]]

align_shift(streets) ==
    [i \in 1..Len(streets) |->
        [streets[i] EXCEPT !.points =
            [j \in 1..Len(@) |-> <<Round1((@[j][1] + OFFSET_X * 10) * 100),
                                   Round1(@[j][2] * 100)>>]]]

\* fix_alignment.py: offset = building bbox midpoint - street bbox midpoint,
\* kept here doubled (in twentieths of a metre) so that it stays whole.
fix_offset2(buildings, streets) ==
    <<(SetMin(bldg_xs(buildings)) + SetMax(bldg_xs(buildings)))
        - (SetMin(street_xs(streets)) + SetMax(street_xs(streets))),
      (SetMin(bldg_zs(buildings)) + SetMax(bldg_zs(buildings)))
        - (SetMin(street_zs(streets)) + SetMax(street_zs(streets)))>>

\* fix_alignment.py: [round(pt[0] + offset_x, 1), round(pt[1] + offset_z, 1)]
fix_shift(streets, off2) ==
    [i \in 1..Len(streets) |->
        [streets[i] EXCEPT !.points =
            [j \in 1..Len(@) |-> <<RoundDiv(2 * @[j][1] + off2[1], 2),
                                   RoundDiv(2 * @[j][2] + off2[2], 2)>>]]]

\* 'illinois' in name.lower(), over the street names the model draws from
IllinoisNames == {"North Illinois Street", "South ILLINOIS St"}
IsIllinois(name) == name \in IllinoisNames

\* [s for s in streets if s.get('name') and 'illinois' in s['name'].lower()]
illinois(streets) == SelectSeq(streets, LAMBDA s : IsIllinois(s.name))

Started(script) == [NoRun EXCEPT !.script = script]

\* finalize_streets.py, from the loads to the write of streets.json
FinalizeStreets ==
    /\ nruns < MaxRuns
    /\ nruns' = nruns + 1
    /\ IF bldg_xs(buildingsJson) = {}
       THEN \* min() of an empty sequence: ValueError before the write
            /\ run' = [Started("finalize_streets") EXCEPT
                          !.pc = "bounds", !.outcome = "crashed", !.examined = streetsJson]
            /\ UNCHANGED <<streetsJson, frames>>
       ELSE LET r == BuildingRegion(buildingsJson, 30 * 10)
            IN  /\ streetsJson' = finalize_filter(streetsJson, r)
                /\ run' = [Started("finalize_streets") EXCEPT
                              !.pc = "end", !.outcome = "wrote",
                              !.writes = <<"streets.json">>,
                              !.examined = streetsJson, !.region = r]
                /\ UNCHANGED frames
    /\ UNCHANGED <<buildingsJson, sourceVars, notFiles>>

\* align_streets.py, from the loads to the write of streets.json and the
\* closing "Verify Illinois Street position" loop (which prints only on a match)
AlignStreets ==
    /\ nruns < MaxRuns
    /\ nruns' = nruns + 1
    /\ LET shifted == align_shift(streetsJson)
       IN  IF bldg_xs(buildingsJson) = {}
           THEN /\ run' = [Started("align_streets") EXCEPT
                              !.pc = "bounds", !.outcome = "crashed", !.examined = shifted]
                /\ UNCHANGED <<streetsJson, frames>>
           ELSE LET r == BuildingRegion(buildingsJson, 100 * 10)
                IN  /\ streetsJson' = align_filter(shifted, r)
                    /\ run' = [Started("align_streets") EXCEPT
                                  !.pc = "end", !.outcome = "wrote",
                                  !.writes = <<"streets.json">>,
                                  !.examined = shifted, !.region = r]
                    /\ frames' = [frames EXCEPT
                                    !.streets = <<@[1] + OFFSET_X * 1000, @[2]>>]
    /\ UNCHANGED <<buildingsJson, sourceVars, notFiles>>

\* fix_alignment.py, from the loads to the write of streets.json
FixAlignment ==
    /\ nruns < MaxRuns
    /\ nruns' = nruns + 1
    /\ IF bldg_xs(buildingsJson) = {} \/ street_xs(streetsJson) = {}
       THEN \* min() of an empty sequence in "# Calculate centers"
            /\ run' = [Started("fix_alignment") EXCEPT
                          !.pc = "centers", !.outcome = "crashed", !.examined = streetsJson]
            /\ UNCHANGED <<streetsJson, frames>>
       ELSE LET off2 == fix_offset2(buildingsJson, streetsJson)
                shifted == fix_shift(streetsJson, off2)
                r == BuildingRegion(buildingsJson, 50 * 10)
                filtered_streets == fix_filter(shifted, r)
            IN  IF street_xs(filtered_streets) = {}
                THEN \* min(new_street_xs) in "# Verify alignment", before the write
                     /\ run' = [Started("fix_alignment") EXCEPT
                                   !.pc = "verify", !.outcome = "crashed",
                                   !.examined = shifted, !.region = r]
                     /\ UNCHANGED <<streetsJson, frames>>
                ELSE /\ streetsJson' = filtered_streets
                     /\ run' = [Started("fix_alignment") EXCEPT
                                   !.pc = "end", !.outcome = "wrote",
                                   !.writes = <<"streets.json">>,
                                   !.examined = shifted, !.region = r]
                     /\ frames' = [frames EXCEPT
                                     !.streets = <<@[1] + off2[1] * 50, @[2] + off2[2] * 50>>]
    /\ UNCHANGED <<buildingsJson, sourceVars, notFiles>>

\* refine_alignment.py: reads both files, prints, writes nothing; with no
\* Illinois street illinois_x divides by zero (an uncaught ZeroDivisionError)
RefineAlignment ==
    /\ nruns < MaxRuns
    /\ nruns' = nruns + 1
    /\ run' = [Started("refine_alignment") EXCEPT
                  !.pc = IF illinois(streetsJson) = <<>> THEN "illinois_x" ELSE "end",
                  !.outcome = IF illinois(streetsJson) = <<>> THEN "crashed" ELSE "done",
                  !.examined = streetsJson]
    /\ UNCHANGED <<streetsJson, buildingsJson, frames, sourceVars, notFiles>>

-----------------------------------------------------------------------------
(* rebuild_all.py.  An OSM way is [id, name, nodes], its nodes the         *)
(* geographic points [lon, lat] the query returned for it; a shape is      *)
(* [points, raises]: the shape's points as the transformer maps them to    *)
(* WGS84, and the index of the point on which transform() raises (0: on    *)
(* none).                                                                  *)

RECURSIVE SeqSum(_)
SeqSum(q) == IF q = <<>> THEN 0 ELSE Head(q) + SeqSum(Tail(q))

RECURSIVE Flatten(_)
Flatten(qq) == IF qq = <<>> THEN <<>> ELSE Head(qq) \o Flatten(Tail(qq))

\* Step 1: the nodes of the ways the query way["name"="North Illinois Street"] matches
illinois_coords(ways) ==
    Flatten([i \in 1..Len(ways) |->
                IF ways[i].name = "North Illinois Street" THEN ways[i].nodes ELSE <<>>])

\* Step 1: CENTER_LON = avg_lon, CENTER_LAT = mid_lat
rebuild_center(coords) ==
    LET lons == [i \in 1..Len(coords) |-> coords[i].lon]
        lats == {coords[i].lat : i \in 1..Len(coords)}
    IN  [lon |-> SeqSum(lons) \div Len(coords),
         lat |-> (SetMin(lats) + SetMax(lats)) \div 2]

\* The exit(1) left out: the message is printed and the script goes on, with
\* the center of the earlier extraction.
rebuild_after_anchor_no_exit(coords) ==
    IF coords # <<>>
    THEN [pc |-> "step2", outcome |-> "running", report |-> "none",
          center |-> rebuild_center(coords)]
    ELSE [pc |-> "step2", outcome |-> "running", report |-> "not_found",
          center |-> DowntownCenter]

\* Step 1, "if illinois_coords: ... else: print(...); exit(1)": where the
\* script stands after the anchor query.
rebuild_after_anchor(coords) ==
    IF coords # <<>>
    THEN [pc |-> "step2", outcome |-> "running", report |-> "none",
          center |-> rebuild_center(coords)]
    ELSE [pc |-> "step1", outcome |-> "exit1", report |-> "not_found",
          center |-> [lat |-> 0, lon |-> 0]]

\* Step 2: the ways projected with to_local, those of at least 2 points kept
rebuild_streets(ways, C) ==
    LET projected == [i \in 1..Len(ways) |->
            [id |-> ways[i].id, name |-> ways[i].name,
             points |-> [j \in 1..Len(ways[i].nodes) |->
                            rebuild_to_local(ways[i].nodes[j].lon, ways[i].nodes[j].lat,
                                             C.lon, C.lat)]]]
    IN  SelectSeq(projected, LAMBDA st : Len(st.points) >= 2)

\* "# Filter to area": -900 < p[0] < 900 and -800 < p[1] < 600
rebuild_in_area(pt) ==
    -900 * 10 < pt[1] /\ pt[1] < 900 * 10 /\ -800 * 10 < pt[2] /\ pt[2] < 600 * 10

rebuild_filter(streets) ==
    SelectSeq(streets, LAMBDA st : \E j \in 1..Len(st.points) : rebuild_in_area(st.points[j]))

\* The area of "# Filter to area" as a region
RebuildArea == [min_x |-> -900 * 10, max_x |-> 900 * 10, min_z |-> -800 * 10, max_z |-> 600 * 10]

\* MIN_LAT <= lat <= MAX_LAT and MIN_LON <= lon <= MAX_LON
rebuild_in_downtown(pt) ==
    /\ 38516000 <= pt.lat /\ pt.lat <= 38526000
    /\ -89993000 <= pt.lon /\ pt.lon <= -89975000

\* Step 3: the shape passes "if not shape.points", the try around the first
\* point's transform and the downtown test, and so reaches "# Convert all points"
rebuild_shape_converted(sh) ==
    /\ sh.points # <<>>
    /\ sh.raises # 1
    /\ rebuild_in_downtown(sh.points[1])

\* Step 3: transform() raises inside "# Convert all points", outside any try
rebuild_shape_crashes(sh) ==
    rebuild_shape_converted(sh) /\ sh.raises > 1 /\ sh.raises <= Len(sh.points)

\* Step 3: local_points after "# Simplify"
rebuild_footprint(sh, C) ==
    rebuild_simplify([j \in 1..Len(sh.points) |->
                        rebuild_to_local(sh.points[j].lon, sh.points[j].lat, C.lon, C.lat)])

SeqXs(points) == {pt[1] : pt \in SeqRange(points)}
SeqZs(points) == {pt[2] : pt \in SeqRange(points)}

\* Step 3: the record appended for a shape; its id and color are set after the sort
rebuild_building(sh, C) ==
    LET fp == rebuild_footprint(sh, C)
        width == SetMax(SeqXs(fp)) - SetMin(SeqXs(fp))
        depth == SetMax(SeqZs(fp)) - SetMin(SeqZs(fp))
    IN  [id |-> 0,
         footprint |-> fp,
         position |-> <<RoundDiv(SetMin(SeqXs(fp)) + SetMax(SeqXs(fp)), 2),
                        RoundDiv(SetMin(SeqZs(fp)) + SetMax(SeqZs(fp)), 2)>>,
         size |-> <<width,
                    RoundDiv(rebuild_estimate_height(width, depth), HeightScale \div 10),
                    depth>>,
         color |-> ""]

\* Step 3: the shape yields a building (converted and not "width < 3 or depth < 3")
rebuild_shape_kept(sh, C) ==
    /\ rebuild_shape_converted(sh)
    /\ LET fp == rebuild_footprint(sh, C)
       IN  ~TooTiny(SetMax(SeqXs(fp)) - SetMin(SeqXs(fp)),
                    SetMax(SeqZs(fp)) - SetMin(SeqZs(fp)))

DistanceKey(b) == b.position[1] * b.position[1] + b.position[2] * b.position[2]

\* buildings.sort(key=...): a stable sort by squared distance from the center
RECURSIVE InsertByDistance(_, _)
InsertByDistance(b, sorted) ==
    IF sorted = <<>> THEN <<b>>
    ELSE IF DistanceKey(Head(sorted)) <= DistanceKey(b)
         THEN <<Head(sorted)>> \o InsertByDistance(b, Tail(sorted))
         ELSE <<b>> \o sorted

RECURSIVE SortByDistance(_)
SortByDistance(buildings) ==
    IF buildings = <<>> THEN <<>>
    ELSE InsertByDistance(buildings[Len(buildings)],
                          SortByDistance(SubSeq(buildings, 1, Len(buildings) - 1)))

\* "# Assign colors"
rebuild_colors ==
    << "#74b9ff", "#a29bfe", "#fd79a8", "#ffeaa7", "#81ecec",
       "#fab1a0", "#00b894", "#e17055", "#6c5ce7", "#fdcb6e",
       "#55efc4", "#b2bec3", "#dfe6e9", "#636e72" >>

\* Step 3: the buildings list as written
rebuild_buildings(shapes, C) ==
    LET kept == SelectSeq(shapes, LAMBDA sh : rebuild_shape_kept(sh, C))
        sorted == SortByDistance([i \in 1..Len(kept) |-> rebuild_building(kept[i], C)])
    IN  [i \in 1..Len(sorted) |->
            [sorted[i] EXCEPT !.id = i,
                              !.color = rebuild_colors[((i - 1) % Len(rebuild_colors)) + 1]]]

\* The frame centered on C, as a shift from the frame centered on DowntownCenter
FrameShift(C) ==
    <<-(C.lon - DowntownCenter.lon) * (LON_TO_METERS \div 1000),
      (C.lat - DowntownCenter.lat) * (LAT_TO_METERS \div 1000)>>

Idle == run.outcome # "running"

At(script, pc) == run.script = script /\ run.outcome = "running" /\ run.pc = pc

\* python3 rebuild_all.py
RebuildStart ==
    /\ Idle
    /\ nruns < MaxRuns
    /\ nruns' = nruns + 1
    /\ run' = [Started("rebuild_all") EXCEPT !.pc = "step1", !.outcome = "running"]
    /\ UNCHANGED <<streetsJson, buildingsJson, frames, sourceVars, notFiles>>

\* Step 1: urlopen raises (no network, HTTP error, timeout)
RebuildAnchorQueryFails ==
    /\ At("rebuild_all", "step1")
    /\ run' = [run EXCEPT !.outcome = "crashed"]
    /\ UNCHANGED <<streetsJson, buildingsJson, frames, nruns, sourceVars, notFiles>>

\* Step 1: the anchor query answers; the center is derived or the script exits
RebuildAnchorQuery ==
    /\ At("rebuild_all", "step1")
    /\ LET a == rebuild_after_anchor(illinois_coords(osm.ways))
       IN  run' = [run EXCEPT !.pc = a.pc, !.outcome = a.outcome, !.report = a.report,
                              !.center = a.center]
    /\ UNCHANGED <<streetsJson, buildingsJson, frames, nruns, sourceVars, notFiles>>

\* Step 2: urlopen raises
RebuildFetchStreetsFails ==
    /\ At("rebuild_all", "step2")
    /\ run' = [run EXCEPT !.outcome = "crashed"]
    /\ UNCHANGED <<streetsJson, buildingsJson, frames, nruns, sourceVars, notFiles>>

\* Step 2: the streets are fetched, projected, filtered and written
RebuildStreets ==
    /\ At("rebuild_all", "step2")
    /\ LET streets == rebuild_streets(osm.ways, run.center)
       IN  /\ streetsJson' = rebuild_filter(streets)
           /\ run' = [run EXCEPT !.pc = "step3", !.examined = streets,
                                 !.region = RebuildArea,
                                 !.writes = Append(@, "streets.json")]
    /\ frames' = [frames EXCEPT !.streets = FrameShift(run.center)]
    /\ UNCHANGED <<buildingsJson, nruns, sourceVars, notFiles>>

\* Step 3: shapefile.Reader raises (the shapefile is absent or unreadable)
RebuildShapefileFails ==
    /\ At("rebuild_all", "step3")
    /\ run' = [run EXCEPT !.outcome = "crashed"]
    /\ UNCHANGED <<streetsJson, buildingsJson, frames, nruns, sourceVars, notFiles>>

\* Step 3: the buildings are extracted and written, unless a transform raises
RebuildBuildings ==
    /\ At("rebuild_all", "step3")
    /\ IF \E sh \in SeqRange(shp) : rebuild_shape_crashes(sh)
       THEN /\ run' = [run EXCEPT !.outcome = "crashed"]
            /\ UNCHANGED <<buildingsJson, frames>>
       ELSE /\ buildingsJson' = rebuild_buildings(shp, run.center)
            /\ run' = [run EXCEPT !.pc = "end", !.outcome = "done",
                                  !.writes = Append(@, "buildings.json")]
            /\ frames' = [frames EXCEPT !.buildings = FrameShift(run.center)]
    /\ UNCHANGED <<streetsJson, nruns, sourceVars, notFiles>>

\* The running script is killed (a signal, a power cut) where it stands
Interrupt ==
    /\ run.outcome = "running"
    /\ run' = [run EXCEPT !.outcome = "interrupted"]
    /\ UNCHANGED <<streetsJson, buildingsJson, frames, nruns, sourceVars, notFiles>>

-----------------------------------------------------------------------------
(* recenter_data.py and recenter_correct.py: each loads, shifts and writes *)
(* buildings.json, then loads, shifts and writes streets.json.             *)

\* recenter_data.py: offset_x, offset_z, in millimetres
recenter_data_offset ==
    <<(FountainCenter.lon - DowntownCenter.lon) * (LON_TO_METERS \div 1000),
      -(FountainCenter.lat - DowntownCenter.lat) * (LAT_TO_METERS \div 1000)>>

\* recenter_data.py: [round(pt[0] - offset_x, 1), round(pt[1] - offset_z, 1)]
recenter_data_point(pt) ==
    <<Round1(pt[1] * 100 - recenter_data_offset[1]),
      Round1(pt[2] * 100 - recenter_data_offset[2])>>

\* total_shift without the undo: shift_x, shift_z alone
recenter_correct_total_shift_no_undo ==
    <<(DowntownCenter.lon - FountainCenter.lon) * (LON_TO_METERS \div 1000),
      -(DowntownCenter.lat - FountainCenter.lat) * (LAT_TO_METERS \div 1000)>>

\* recenter_correct.py: total_shift_x, total_shift_z, in millimetres
\* (undo_x = -87.3, undo_z = -245.0, plus shift_x, shift_z)
recenter_correct_total_shift ==
    <<-87300 + (DowntownCenter.lon - FountainCenter.lon) * (LON_TO_METERS \div 1000),
      -245000 - (DowntownCenter.lat - FountainCenter.lat) * (LAT_TO_METERS \div 1000)>>

\* recenter_correct.py: [round(pt[0] + total_shift_x, 1), round(pt[1] + total_shift_z, 1)]
recenter_correct_point(pt) ==
    <<Round1(pt[1] * 100 + recenter_correct_total_shift[1]),
      Round1(pt[2] * 100 + recenter_correct_total_shift[2])>>

\* recenter_data.py: the buildings loop (position and footprint shifted)
recenter_data_buildings(buildings) ==
    [i \in 1..Len(buildings) |->
        [buildings[i] EXCEPT
            !.position = recenter_data_point(@),
            !.footprint = [j \in 1..Len(@) |-> recenter_data_point(@[j])]]]

\* recenter_data.py: the streets loop
recenter_data_streets(streets) ==
    [i \in 1..Len(streets) |->
        [streets[i] EXCEPT !.points = [j \in 1..Len(@) |-> recenter_data_point(@[j])]]]

\* recenter_correct.py: the buildings loop
recenter_correct_buildings(buildings) ==
    [i \in 1..Len(buildings) |->
        [buildings[i] EXCEPT
            !.position = recenter_correct_point(@),
            !.footprint = [j \in 1..Len(@) |-> recenter_correct_point(@[j])]]]

\* recenter_correct.py: the streets loop
recenter_correct_streets(streets) ==
    [i \in 1..Len(streets) |->
        [streets[i] EXCEPT !.points = [j \in 1..Len(@) |-> recenter_correct_point(@[j])]]]

\* What a shift of stored points does to a file's frame: every stored
\* coordinate is a whole number of tenths, so all move as the origin does;
\* origin is where the shift takes the point (0, 0).
Moved(shift, origin) == <<shift[1] + 100 * origin[1], shift[2] + 100 * origin[2]>>

\* python3 recenter_data.py
RecenterDataStart ==
    /\ Idle
    /\ nruns < MaxRuns
    /\ nruns' = nruns + 1
    /\ run' = [Started("recenter_data") EXCEPT !.pc = "buildings", !.outcome = "running"]
    /\ UNCHANGED <<streetsJson, buildingsJson, frames, sourceVars, notFiles>>

\* recenter_data.py "# Load and recenter buildings" to "# Save buildings"
RecenterDataBuildings ==
    /\ At("recenter_data", "buildings")
    /\ buildingsJson' = recenter_data_buildings(buildingsJson)
    /\ frames' = [frames EXCEPT !.buildings = Moved(@, recenter_data_point(<<0, 0>>))]
    /\ run' = [run EXCEPT !.pc = "streets", !.writes = Append(@, "buildings.json")]
    /\ UNCHANGED <<streetsJson, nruns, sourceVars, notFiles>>

\* recenter_data.py "# Load and recenter streets" to "# Save streets"
RecenterDataStreets ==
    /\ At("recenter_data", "streets")
    /\ streetsJson' = recenter_data_streets(streetsJson)
    /\ frames' = [frames EXCEPT !.streets = Moved(@, recenter_data_point(<<0, 0>>))]
    /\ run' = [run EXCEPT !.pc = "end", !.outcome = "done",
                          !.writes = Append(@, "streets.json")]
    /\ UNCHANGED <<buildingsJson, nruns, sourceVars, notFiles>>

\* python3 recenter_correct.py
RecenterCorrectStart ==
    /\ Idle
    /\ nruns < MaxRuns
    /\ nruns' = nruns + 1
    /\ run' = [Started("recenter_correct") EXCEPT !.pc = "buildings", !.outcome = "running"]
    /\ UNCHANGED <<streetsJson, buildingsJson, frames, sourceVars, notFiles>>

\* recenter_correct.py "# Load buildings" to the write of buildings.json
RecenterCorrectBuildings ==
    /\ At("recenter_correct", "buildings")
    /\ buildingsJson' = recenter_correct_buildings(buildingsJson)
    /\ frames' = [frames EXCEPT !.buildings = Moved(@, recenter_correct_point(<<0, 0>>))]
    /\ run' = [run EXCEPT !.pc = "streets", !.writes = Append(@, "buildings.json")]
    /\ UNCHANGED <<streetsJson, nruns, sourceVars, notFiles>>

\* recenter_correct.py "# Load streets" to the write of streets.json
RecenterCorrectStreets ==
    /\ At("recenter_correct", "streets")
    /\ streetsJson' = recenter_correct_streets(streetsJson)
    /\ frames' = [frames EXCEPT !.streets = Moved(@, recenter_correct_point(<<0, 0>>))]
    /\ run' = [run EXCEPT !.pc = "end", !.outcome = "done",
                          !.writes = Append(@, "streets.json")]
    /\ UNCHANGED <<buildingsJson, nruns, sourceVars, notFiles>>

-----------------------------------------------------------------------------
(* scripts/fetch-overture-data.py fetch_buildings.  A row of the query is  *)
(* [id, height, num_floors, ring]: height (metres) and num_floors are 0    *)
(* where Overture holds none (None and 0 are both falsy), ring is the      *)
(* outer ring of the row's Polygon, closing point included.  id_ is a str, *)
(* and hash() of a str is salted per process (PYTHONHASHSEED is not set by *)
(* the script): within a process equal ids hash alike, and the values are  *)
(* a table the process draws when it starts.                               *)

color_palette ==
    << "#8b7355", "#7a8b8b", "#6b6b7a", "#8b8378", "#7d8b8b",
       "#74b9ff", "#a29bfe", "#fd79a8", "#ffeaa7", "#81ecec",
       "#dfe6e9", "#b2bec3", "#636e72", "#fab1a0", "#e17055",
       "#00b894", "#00cec9", "#0984e3", "#6c5ce7", "#fdcb6e",
       "#e84393", "#55a3ff", "#ff7675", "#a0c4ff", "#bdb2ff" >>

\* ring[:-1]
SkipClosingPoint(ring) == SubSeq(ring, 1, Len(ring) - 1)

\* "# Estimate height" with the two tests in the other order: a floor count
\* wins over a height.
fetch_bldg_height_floors_first(row, hash) ==
    IF row.num_floors # 0 THEN row.num_floors * 35
    ELSE IF row.height # 0 THEN row.height * 10
    ELSE (8 + (hash[row.id] % 25)) * 10

\* "# Estimate height", in tenths of a metre
fetch_bldg_height(row, hash) ==
    IF row.height # 0 THEN row.height * 10
    ELSE IF row.num_floors # 0 THEN row.num_floors * 35
    ELSE (8 + (hash[row.id] % 25)) * 10

\* color_idx = hash(id_) % len(color_palette); color = color_palette[color_idx]
fetch_color(row, hash) == color_palette[(hash[row.id] % Len(color_palette)) + 1]

\* The building appended for a row's ring; position holds the sums of the
\* footprint's coordinates and the count they are divided by.
fetch_building(row, hash) ==
    LET footprint == [i \in 1..(Len(row.ring) - 1) |->
                        latlon_to_local(row.ring[i].lon, row.ring[i].lat,
                                        OvertureCenter.lon, OvertureCenter.lat)]
    IN  [id |-> row.id,
         footprint |-> footprint,
         position |-> [sum_x |-> SeqSum([i \in 1..Len(footprint) |-> footprint[i][1]]),
                       sum_z |-> SeqSum([i \in 1..Len(footprint) |-> footprint[i][2]]),
                       n |-> Len(footprint)],
         size |-> <<SetMax(SeqXs(footprint)) - SetMin(SeqXs(footprint)),
                    fetch_bldg_height(row, hash),
                    SetMax(SeqZs(footprint)) - SetMin(SeqZs(footprint))>>,
         color |-> fetch_color(row, hash)]

\* fetch_buildings: rows whose footprint has fewer than 3 points are skipped
fetch_buildings(result, hash) ==
    LET kept == SelectSeq(result, LAMBDA row : Len(SkipClosingPoint(row.ring)) >= 3)
    IN  [i \in 1..Len(kept) |-> fetch_building(kept[i], hash)]

-----------------------------------------------------------------------------
(* extract_downtown.py main: the shapefile's records to buildings.json.    *)
(* A shape is [points, raises] as for rebuild_all.py.                      *)

\* MIN_LAT <= lat <= MAX_LAT and MIN_LON <= lon <= MAX_LON
downtown_in_bounds(pt) ==
    /\ 38516000 <= pt.lat /\ pt.lat <= 38526000
    /\ -89993000 <= pt.lon /\ pt.lon <= -89975000

\* The shape passes "if not points", the try around the first point's
\* transform and the bounds test, and so reaches "# Convert all points"
downtown_shape_converted(sh) ==
    /\ sh.points # <<>>
    /\ sh.raises # 1
    /\ downtown_in_bounds(sh.points[1])

\* transform() raises inside "# Convert all points", outside any try
downtown_shape_crashes(sh) ==
    downtown_shape_converted(sh) /\ sh.raises > 1 /\ sh.raises <= Len(sh.points)

\* local_points after "# Simplify polygon"
downtown_footprint(sh) ==
    simplify_polygon([j \in 1..Len(sh.points) |->
                        downtown_local_point(sh.points[j].lon, sh.points[j].lat)])

\* The record appended for a shape; its id and color are set after the sort
downtown_building(sh) ==
    LET fp == downtown_footprint(sh)
        width == SetMax(SeqXs(fp)) - SetMin(SeqXs(fp))
        depth == SetMax(SeqZs(fp)) - SetMin(SeqZs(fp))
    IN  [id |-> 0,
         footprint |-> fp,
         position |-> <<RoundDiv(SetMin(SeqXs(fp)) + SetMax(SeqXs(fp)), 2),
                        RoundDiv(SetMin(SeqZs(fp)) + SetMax(SeqZs(fp)), 2)>>,
         size |-> <<width,
                    HeightEntry(downtown_estimate_height(width, depth), width, depth).size_h,
                    depth>>,
         color |-> ""]

\* The shape yields a building (converted and not "width < 3 or depth < 3")
downtown_shape_kept(sh) ==
    /\ downtown_shape_converted(sh)
    /\ LET fp == downtown_footprint(sh)
       IN  ~TooTiny(SetMax(SeqXs(fp)) - SetMin(SeqXs(fp)),
                    SetMax(SeqZs(fp)) - SetMin(SeqZs(fp)))

\* "# Assign colors from palette"
downtown_colors ==
    << "#74b9ff", "#a29bfe", "#fd79a8", "#ffeaa7", "#81ecec",
       "#fab1a0", "#00b894", "#e17055", "#6c5ce7", "#fdcb6e",
       "#55efc4", "#b2bec3", "#dfe6e9", "#636e72" >>

\* The buildings list as written: the loop, the sort, the colors and the ids
downtown_buildings(shapes) ==
    LET kept == SelectSeq(shapes, downtown_shape_kept)
        sorted == SortByDistance([i \in 1..Len(kept) |-> downtown_building(kept[i])])
    IN  [i \in 1..Len(sorted) |->
            [sorted[i] EXCEPT !.id = i,
                              !.color = downtown_colors[((i - 1) % Len(downtown_colors)) + 1]]]

\* python3 extract_downtown.py with the shapefile missing: shapefile.Reader raises
ExtractDowntownReaderFails ==
    /\ Idle
    /\ nruns < MaxRuns
    /\ nruns' = nruns + 1
    /\ run' = [Started("extract_downtown") EXCEPT !.pc = "reader", !.outcome = "crashed"]
    /\ UNCHANGED <<streetsJson, buildingsJson, frames, sourceVars, notFiles>>

\* python3 extract_downtown.py, from Reader to the write of buildings.json,
\* unless a transform raises in "# Convert all points"
ExtractDowntown ==
    /\ Idle
    /\ nruns < MaxRuns
    /\ nruns' = nruns + 1
    /\ IF \E sh \in SeqRange(shp) : downtown_shape_crashes(sh)
       THEN /\ run' = [Started("extract_downtown") EXCEPT
                          !.pc = "convert", !.outcome = "crashed"]
            /\ UNCHANGED <<buildingsJson, frames>>
       ELSE /\ buildingsJson' = downtown_buildings(shp)
            /\ run' = [Started("extract_downtown") EXCEPT
                          !.pc = "end", !.outcome = "done", !.writes = <<"buildings.json">>]
            /\ frames' = [frames EXCEPT !.buildings = <<0, 0>>]
    /\ UNCHANGED <<streetsJson, sourceVars, notFiles>>

-----------------------------------------------------------------------------
(* scripts/fetch-overture-data.py fetch_roads.  A row of the query is      *)
(* [id, name, class, type, coordinates]: type and coordinates are those of *)
(* the row's GeoJSON geometry.                                             *)

\* type_map.get(road_class, 'residential')
fetch_street_type(road_class) ==
    CASE road_class \in {"motorway", "trunk", "primary"} -> "primary"
      [] road_class = "secondary" -> "secondary"
      [] road_class = "tertiary" -> "tertiary"
      [] road_class = "service" -> "service"
      [] OTHER -> "residential"

\* The street appended for a row
fetch_street(row) ==
    [id |-> row.id,
     name |-> row.name,
     type |-> fetch_street_type(row.class),
     points |-> [i \in 1..Len(row.coordinates) |->
                    latlon_to_local(row.coordinates[i].lon, row.coordinates[i].lat,
                                    OvertureCenter.lon, OvertureCenter.lat)]]

\* fetch_roads: rows whose geometry is no LineString are skipped
fetch_roads(result) ==
    LET lines == SelectSeq(result, LAMBDA row : row.type = "LineString")
    IN  [i \in 1..Len(lines) |-> fetch_street(lines[i])]

\* fetch_roads(con, bbox), as main calls it
FetchRoads ==
    /\ ~roadsDoc.done
    /\ roadsDoc' = Produced(fetch_roads(segments))
    /\ UNCHANGED <<segments, landuseWays, landuseJson, notFeatures>>

-----------------------------------------------------------------------------
(* fetch_landuse.py.  A way is [id, tags, nodes]: tags is the way's tag     *)
(* dictionary (a function from keys to values, <<>> when it has none),     *)
(* nodes the points [lon, lat] of those of its nodes the response holds.   *)

\* tags.get(key), "" standing for None
TagOf(tags, key) == IF key \in DOMAIN tags THEN tags[key] ELSE ""

\* "# Determine feature type": feature_type and color, "" for None
landuse_feature_type(tags) ==
    CASE TagOf(tags, "leisure") = "park" -> [type |-> "park", color |-> "#1a2a1a"]
      [] TagOf(tags, "landuse") = "grass" -> [type |-> "grass", color |-> "#1a2a1a"]
      [] TagOf(tags, "landuse") = "residential" -> [type |-> "residential", color |-> "#1c1c26"]
      [] TagOf(tags, "landuse") = "commercial" -> [type |-> "commercial", color |-> "#1e1e28"]
      [] TagOf(tags, "landuse") = "industrial" -> [type |-> "industrial", color |-> "#1a1a22"]
      [] TagOf(tags, "amenity") = "parking" -> [type |-> "parking", color |-> "#202028"]
      [] TagOf(tags, "natural") = "water" -> [type |-> "water", color |-> "#1a2a3a"]
      [] TagOf(tags, "waterway") # "" -> [type |-> "waterway", color |-> "#1a2a3a"]
      [] TagOf(tags, "railway") # "" -> [type |-> "railway", color |-> "#2a2a2a"]
      [] OTHER -> [type |-> "", color |-> "#1a1a24"]

\* "# Get polygon points"
landuse_points(way) ==
    [i \in 1..Len(way.nodes) |-> landuse_to_local(way.nodes[i].lon, way.nodes[i].lat)]

\* The way yields a feature: it has tags, a feature type and at least 3 points
landuse_kept(way) ==
    /\ DOMAIN way.tags # {}
    /\ landuse_feature_type(way.tags).type # ""
    /\ Len(landuse_points(way)) >= 3

landuse_feature(way) ==
    [id |-> way.id,
     type |-> landuse_feature_type(way.tags).type,
     name |-> TagOf(way.tags, "name"),
     points |-> landuse_points(way),
     color |-> landuse_feature_type(way.tags).color]

\* features, as written to landuse.json
landuse_features(ways) ==
    LET kept == SelectSeq(ways, landuse_kept)
    IN  [i \in 1..Len(kept) |-> landuse_feature(kept[i])]

\* python3 fetch_landuse.py
FetchLanduse ==
    /\ ~landuseJson.done
    /\ landuseJson' = Produced(landuse_features(landuseWays))
    /\ UNCHANGED <<segments, roadsDoc, landuseWays, notFeatures>>

-----------------------------------------------------------------------------
(* extract_streets.py main: the ways of the Overpass answer to streets.json *)

\* "# Parse ways (streets)": the points of each way, those of at least 2 kept
extract_streets_streets(ways) ==
    LET projected == [i \in 1..Len(ways) |->
            [id |-> ways[i].id, name |-> ways[i].name,
             points |-> [j \in 1..Len(ways[i].nodes) |->
                            streets_convert_to_local(ways[i].nodes[j].lon,
                                                     ways[i].nodes[j].lat)]]]
    IN  SelectSeq(projected, LAMBDA st : Len(st.points) >= 2)

\* The except branch without its return: the script goes on with an empty
\* answer and saves it.
extract_streets_on_error_goes_on ==
    [pc |-> "end", report |-> "fetch_error", writes |-> <<"streets.json">>]

\* "except Exception as e: print(f"Error fetching data: {e}"); return"
extract_streets_on_error ==
    [pc |-> "fetch", report |-> "fetch_error", writes |-> <<>>]

\* python3 extract_streets.py when urlopen, read or json.loads raises
ExtractStreetsFetchFails ==
    /\ Idle
    /\ nruns < MaxRuns
    /\ nruns' = nruns + 1
    /\ LET after == extract_streets_on_error
       IN  /\ run' = [Started("extract_streets") EXCEPT
                         !.pc = after.pc, !.outcome = "done",
                         !.report = after.report, !.writes = after.writes]
           /\ IF after.writes = <<>>
              THEN UNCHANGED <<streetsJson, frames>>
              ELSE /\ streetsJson' = extract_streets_streets(<<>>)
                   /\ frames' = [frames EXCEPT !.streets = <<0, 0>>]
    /\ UNCHANGED <<buildingsJson, sourceVars, notFiles>>

\* python3 extract_streets.py, from the request to the write of streets.json
ExtractStreets ==
    /\ Idle
    /\ nruns < MaxRuns
    /\ nruns' = nruns + 1
    /\ streetsJson' = extract_streets_streets(osm.ways)
    /\ run' = [Started("extract_streets") EXCEPT
                  !.pc = "end", !.outcome = "done", !.writes = <<"streets.json">>]
    /\ frames' = [frames EXCEPT !.streets = <<0, 0>>]
    /\ UNCHANGED <<buildingsJson, sourceVars, notFiles>>

-----------------------------------------------------------------------------
(* Specification SpecProject: one projection call on a point near a center *)

GridRadius == 3
GridStep == 500

Deltas == {k * GridStep : k \in -GridRadius..GridRadius} \cup {-1, 1}

Frames == {DowntownCenter, OvertureCenter, LanduseCenter, FountainCenter}

Applied(fn, p) == [fn |-> fn, x |-> p[1], z |-> p[2]]

InitProject ==
    /\ IdleSimplify /\ IdleHeight /\ IdleFiles /\ IdleFetch /\ IdleFeatures /\ IdleWrite
    /\ frame \in Frames
    /\ \E dlon \in Deltas, dlat \in Deltas :
           geo = [lon |-> frame.lon + dlon, lat |-> frame.lat + dlat]
    /\ local = NoLocal

ExtractDowntownProject ==
    /\ local = NoLocal
    /\ frame = DowntownCenter
    /\ local' = Applied("extract_downtown", downtown_local_point(geo.lon, geo.lat))
    /\ UNCHANGED <<geo, frame, notProj>>

ExtractStreetsProject ==
    /\ local = NoLocal
    /\ frame = DowntownCenter
    /\ local' = Applied("extract_streets", streets_convert_to_local(geo.lon, geo.lat))
    /\ UNCHANGED <<geo, frame, notProj>>

RebuildAllProject ==
    /\ local = NoLocal
    /\ local' = Applied("rebuild_all", rebuild_to_local(geo.lon, geo.lat, frame.lon, frame.lat))
    /\ UNCHANGED <<geo, frame, notProj>>

FetchLanduseProject ==
    /\ local = NoLocal
    /\ frame = LanduseCenter
    /\ local' = Applied("fetch_landuse", landuse_to_local(geo.lon, geo.lat))
    /\ UNCHANGED <<geo, frame, notProj>>

FetchOvertureProject ==
    /\ local = NoLocal
    /\ frame = OvertureCenter
    /\ local' = Applied("fetch_overture",
                        latlon_to_local(geo.lon, geo.lat, OvertureCenter.lon, OvertureCenter.lat))
    /\ UNCHANGED <<geo, frame, notProj>>

NextProject ==
    \/ ExtractDowntownProject
    \/ ExtractStreetsProject
    \/ RebuildAllProject
    \/ FetchLanduseProject
    \/ FetchOvertureProject

SpecProject == InitProject /\ [][NextProject]_vars

-----------------------------------------------------------------------------
(* C1: for every projection function, a point north of the frame's center  *)
(* projects to z <= 0 and a point south of it to z >= 0 (z increases       *)
(* southward).  Violated by latlon_to_local, which omits the sign flip.    *)
C1_ZIncreasesSouthward ==
    local.fn # "none" =>
        /\ (geo.lat > frame.lat => local.z <= 0)
        /\ (geo.lat < frame.lat => local.z >= 0)

\* The scripts that project in the frame centered on (38.5200, -89.9839)
InDowntownFrame == local.fn \in {"extract_downtown", "extract_streets"}

(* C14: with center (38.5200, -89.9839) and scale factors 111000 (lat) and *)
(* 87000 (lon), the projection is x = (lon - center_lon) * 87000 and       *)
(* z = -(lat - center_lat) * 111000, rounded to 0.1: a point 0.001 degree  *)
(* east of center maps to (87.0, 0.0), one 0.001 degree north to           *)
(* (0.0, -111.0).  Degrees are in microdegrees, results in tenths.         *)
C14_ProjectIsAffine ==
    InDowntownFrame =>
        /\ local.x = RoundDiv((geo.lon - (-89983900)) * 87, 100)
        /\ local.z = RoundDiv(-(geo.lat - 38520000) * 111, 100)
        /\ (geo = [lon |-> -89983900 + 1000, lat |-> 38520000]
               => local.x = 870 /\ local.z = 0)
        /\ (geo = [lon |-> -89983900, lat |-> 38520000 + 1000]
               => local.x = 0 /\ local.z = -1110)

\* extract_streets.py has projected the point 0.001 degree east of center
C14_Witness ==
    /\ local.fn = "extract_streets"
    /\ geo = [lon |-> DowntownCenter.lon + 1000, lat |-> DowntownCenter.lat]
    /\ local.x = 870 /\ local.z = 0

\* C15: in every script, the script's own centre projects to the local
\* origin (0, 0).
C15_CenterProjectsToOrigin ==
    (local.fn # "none" /\ geo = frame) => (local.x = 0 /\ local.z = 0)

C15_Witness ==
    /\ local.fn = "fetch_landuse"
    /\ geo = LanduseCenter
    /\ frame = LanduseCenter
    /\ local.x = 0
    /\ local.z = 0

-----------------------------------------------------------------------------
(* Specification SpecSimplify: one footprint, decimated by one script.     *)
(* The footprints are the sequences of 1..MaxPolyLen points that repeat    *)
(* with some period: all points distinct, a closed ring (the last point    *)
(* equal to the first), and rings with other coinciding points.            *)

MaxPolyLen == 42

PolyPoint(k) == <<10 * k, 10 * (k % 3)>>

Footprint(n, period) == [i \in 1..n |-> PolyPoint((i - 1) % period)]

InitSimplify ==
    /\ IdleProject /\ IdleHeight /\ IdleFiles /\ IdleFetch /\ IdleFeatures /\ IdleWrite
    /\ \E n \in 1..MaxPolyLen : \E period \in 1..n : poly = Footprint(n, period)
    /\ simplified = NoSimplified

ExtractDowntownSimplify ==
    /\ simplified = NoSimplified
    /\ simplified' = [fn |-> "simplify_polygon", points |-> simplify_polygon(poly)]
    /\ UNCHANGED <<poly, notSimp>>

RebuildAllSimplify ==
    /\ simplified = NoSimplified
    /\ simplified' = [fn |-> "rebuild_all", points |-> rebuild_simplify(poly)]
    /\ UNCHANGED <<poly, notSimp>>

NextSimplify ==
    \/ ExtractDowntownSimplify
    \/ RebuildAllSimplify

SpecSimplify == InitSimplify /\ [][NextSimplify]_vars

(* C5: wherever the repository simplifies a footprint of more than 4       *)
(* points, simplify_polygon or the inline decimation of rebuild_all.py,    *)
(* the result's first and last points are equal (a closed ring).  Violated *)
(* by rebuild_all.py, which decimates without re-closing.                  *)
C5_SimplifiedIsClosedRing ==
    (simplified.fn # "none" /\ Len(poly) > 4) =>
        simplified.points[1] = simplified.points[Len(simplified.points)]

\* The indices range(0, n, step) of a list of n points, counted from 0
RetainedIndices(n, step) == {i \in 0..(n - 1) : i % step = 0}

(* C17: simplify_polygon returns its input unchanged when it has 4 or      *)
(* fewer points (so does the inline decimation of rebuild_all.py);         *)
(* otherwise, with step = max(1, len(points) // 20), the retained points,  *)
(* before any closing point is appended, are exactly the input points at   *)
(* the indices 0, step, 2*step, ... below len(points), in that order.      *)
C17_SimplifyKeepsEveryStepth ==
    simplified.fn # "none" =>
        LET n == Len(poly)
            pts == simplified.points
            step == IF n \div 20 >= 1 THEN n \div 20 ELSE 1
            m == Cardinality(RetainedIndices(n, step))
        IN  IF n <= 4 THEN pts = poly
            ELSE /\ Len(pts) \in {m, m + 1}
                 /\ \A k \in 1..m : pts[k] = poly[(k - 1) * step + 1]
                 /\ Len(pts) = m + 1 =>
                        (simplified.fn = "simplify_polygon" /\ pts[m + 1] = pts[1]
                            /\ poly[(m - 1) * step + 1] # poly[1])

\* simplify_polygon on 41 distinct points: step 2, indices 0, 2, ..., 40
\* retained and the closing point appended.
C17_Witness ==
    /\ simplified.fn = "simplify_polygon"
    /\ Len(poly) = 41
    /\ Len(simplified.points) = 22
    /\ simplified.points[2] = poly[3]
    /\ simplified.points[21] = poly[41]

-----------------------------------------------------------------------------
(* Specification SpecHeight: the per-building loop of extract_downtown.py  *)
(* or rebuild_all.py over a batch of two footprints, given by their bounds *)
(* (width, depth) in tenths of a metre.                                    *)

MaxWidth == 61

\* Widths from below the 3 m cut to MaxWidth; depths that put the areas
\* around each breakpoint (50, 200, 500 m2) and past the cap (2000 m2), and
\* on 40, 100, 300 and 600 m2.
Widths == {29, 30, 40} \cup 45..MaxWidth
Depths == {100, 200, 400, 1000, 4000}
Dim == [width : Widths, depth : Depths]

Area(d) == d.width * d.depth

InitHeight ==
    /\ IdleProject /\ IdleSimplify /\ IdleFiles /\ IdleFetch /\ IdleFeatures /\ IdleWrite
    /\ \E a \in Dim, b \in Dim : dims = <<a, b>>
    /\ heights = NoHeights

ExtractDowntownEstimate ==
    /\ heights.script \in {"none", "extract_downtown"}
    /\ Len(heights.hs) < Len(dims)
    /\ LET d == dims[Len(heights.hs) + 1]
           e == HeightEntry(downtown_estimate_height(d.width, d.depth), d.width, d.depth)
       IN  heights' = [script |-> "extract_downtown", hs |-> Append(heights.hs, e)]
    /\ UNCHANGED <<dims, notHeight>>

RebuildAllEstimate ==
    /\ heights.script \in {"none", "rebuild_all"}
    /\ Len(heights.hs) < Len(dims)
    /\ LET d == dims[Len(heights.hs) + 1]
           e == HeightEntry(rebuild_estimate_height(d.width, d.depth), d.width, d.depth)
       IN  heights' = [script |-> "rebuild_all", hs |-> Append(heights.hs, e)]
    /\ UNCHANGED <<dims, notHeight>>

NextHeight ==
    \/ ExtractDowntownEstimate
    \/ RebuildAllEstimate

SpecHeight == InitHeight /\ [][NextHeight]_vars

\* Both buildings of the batch got a height (neither was skipped as tiny).
BothEstimated ==
    /\ Len(heights.hs) = Len(dims)
    /\ Len(dims) >= 2
    /\ \A i \in 1..Len(dims) : ~heights.hs[i].skipped

(* C6 as claimed: the estimated height is non-decreasing in footprint area, *)
(* for every pair of areas a1 <= a2, the breakpoints included.              *)
C6_HeightMonotone ==
    BothEstimated =>
        \A i, j \in 1..Len(dims) :
            Area(dims[i]) <= Area(dims[j]) =>
                /\ heights.hs[i].height <= heights.hs[j].height
                /\ heights.hs[i].size_h <= heights.hs[j].size_h

\* The pair (a1, a2) of areas straddles the breakpoint at 50 m2 with a2
\* still below 60 m2.
Across50(a1, a2) == a1 < 50 * 100 /\ 50 * 100 <= a2 /\ a2 < 60 * 100

(* C6 as amended: the estimated height is non-decreasing in footprint area *)
(* for every pair a1 <= a2 except a pair with a1 < 50 <= a2 < 60: the      *)
(* estimate drops at 50 m2 (from just under 10 to 9.67) and is back above  *)
(* 10 from 60 m2 on; it does not drop at 200 or at 500.                    *)
C6_HeightMonotoneExceptAt50 ==
    BothEstimated =>
        \A i, j \in 1..Len(dims) :
            (Area(dims[i]) <= Area(dims[j]) /\ ~Across50(Area(dims[i]), Area(dims[j]))) =>
                /\ heights.hs[i].height <= heights.hs[j].height
                /\ heights.hs[i].size_h <= heights.hs[j].size_h

\* A batch whose two areas straddle the breakpoint at 200 m2, both estimated,
\* and one whose areas straddle 50 m2 and are ordered all the same.
C6_Witness ==
    /\ BothEstimated
    /\ Area(dims[1]) < 200 * 100 /\ Area(dims[2]) >= 200 * 100
    /\ Area(dims[1]) > 50 * 100
    /\ heights.hs[1].height < heights.hs[2].height

\* height = base + area / per, with the area in square tenths of a metre
\* and the height in 1/HeightScale metres, cleared of fractions.
IsLinear(h, base, per, area) ==
    h * per = (HeightScale \div 100) * (base * per * 100 + area)

(* C18: the estimated height is the stated piecewise function of           *)
(* area = width * depth (area < 50: 5 + area/10; area < 200: 8 + area/30;  *)
(* area < 500: 12 + area/50; otherwise 18 + min(area/80, 25)): 9 at area   *)
(* 40, 11.33 at 100, 18 at 300 and 25.5 at 600; and it always lies         *)
(* between 5 and 43.                                                       *)
C18_HeightIsPiecewise ==
    \A i \in 1..Len(heights.hs) :
        ~heights.hs[i].skipped =>
            LET a == Area(dims[i])
                h == heights.hs[i].height
            IN  /\ a < 50 * 100 => IsLinear(h, 5, 10, a)
                /\ (50 * 100 <= a /\ a < 200 * 100) => IsLinear(h, 8, 30, a)
                /\ (200 * 100 <= a /\ a < 500 * 100) => IsLinear(h, 12, 50, a)
                /\ (500 * 100 <= a /\ a <= 2000 * 100) => IsLinear(h, 18, 80, a)
                /\ a > 2000 * 100 => h = (18 + 25) * HeightScale
                /\ a = 40 * 100 => h = 9 * HeightScale
                /\ a = 100 * 100 => 3 * h = 34 * HeightScale
                /\ a = 300 * 100 => h = 18 * HeightScale
                /\ a = 600 * 100 => 2 * h = 51 * HeightScale
                /\ 5 * HeightScale <= h
                /\ h <= 43 * HeightScale

\* rebuild_all.py on a batch of areas 40 m2 and 600 m2, and
\* extract_downtown.py likewise on 100 m2 and past the cap.
C18_Witness ==
    /\ BothEstimated
    /\ \/ /\ heights.script = "rebuild_all"
          /\ Area(dims[1]) = 40 * 100 /\ heights.hs[1].height = 9 * HeightScale
          /\ Area(dims[2]) = 600 * 100 /\ 2 * heights.hs[2].height = 51 * HeightScale
       \/ /\ heights.script = "extract_downtown"
          /\ Area(dims[1]) = 100 * 100
          /\ Area(dims[2]) > 2000 * 100 /\ heights.hs[2].height = 43 * HeightScale

-----------------------------------------------------------------------------
(* Specification SpecStreets: up to MaxRuns runs of the street scripts on  *)
(* the two files.  streets.json starts with one street drawn from the      *)
(* point pool (any two or more of its points, west to east or east to      *)
(* west, named after Illinois Street or unnamed), alone or followed by one  *)
(* of two fixed streets; buildings.json starts with one building of one of *)
(* three footprints, or with none.                                         *)

\* Points on, inside and outside the regions the scripts derive.
PointPool == << <<-1500, 0>>, <<-1000, 0>>, <<0, -1000>>, <<0, 0>>,
                <<0, 1000>>, <<1000, 0>>, <<1500, 0>> >>

RECURSIVE Pick(_, _, _)
Pick(pool, S, i) ==
    IF i > Len(pool) THEN <<>>
    ELSE (IF i \in S THEN <<pool[i]>> ELSE <<>>) \o Pick(pool, S, i + 1)

Reverse(q) == [i \in 1..Len(q) |-> q[Len(q) + 1 - i]]

StreetPointLists ==
    LET fwd == {Pick(PointPool, S, 1) :
                  S \in {T \in SUBSET (1..Len(PointPool)) : Cardinality(T) >= 2}}
    IN  fwd \cup {Reverse(q) : q \in fwd}

SecondStreet ==
    [id |-> 2, name |-> "West Main Street",
     points |-> << <<-1500, 0>>, <<0, 0>>, <<1500, 0>> >>]

\* A street that lies wholly to the west of the others
FarStreet ==
    [id |-> 2, name |-> "West A Street",
     points |-> << <<-4000, 0>>, <<-3500, 0>> >>]

Box(x0, x1, z0, z1) == << <<x0, z0>>, <<x1, z0>>, <<x1, z1>>, <<x0, z1>> >>

BuildingOf(footprint) ==
    [footprint |-> footprint,
     position |-> <<(footprint[1][1] + footprint[3][1]) \div 2,
                    (footprint[1][2] + footprint[3][2]) \div 2>>]

BuildingLists ==
    { <<>>,
      <<BuildingOf(Box(-700, 700, -700, 700))>>,
      <<BuildingOf(Box(-230, 270, -700, 700))>>,
      <<BuildingOf(Box(-1300, 1300, -600, 600))>> }

InitStreets ==
    /\ IdleProject /\ IdleSimplify /\ IdleHeight /\ IdleFetch /\ IdleFeatures /\ IdleWrite
    /\ \E pts \in StreetPointLists, name \in {"North Illinois Street", ""},
          rest \in {<<>>, <<SecondStreet>>, <<FarStreet>>} :
           streetsJson = <<[id |-> 1, name |-> name, points |-> pts]>> \o rest
    /\ buildingsJson \in BuildingLists
    /\ frames = SameFrame
    /\ run = NoRun
    /\ nruns = 0
    /\ osm = NoOsm
    /\ shp = <<>>

NextStreets ==
    \/ FinalizeStreets
    \/ AlignStreets
    \/ FixAlignment
    \/ RefineAlignment

SpecStreets == InitStreets /\ [][NextStreets]_vars

InRegion(pt, r) ==
    r.min_x <= pt[1] /\ pt[1] <= r.max_x /\ r.min_z <= pt[2] /\ pt[2] <= r.max_z

PointsInRegion(st, r) == SelectSeq(st.points, LAMBDA pt : InRegion(pt, r))

Ids(streets) == {st.id : st \in SeqRange(streets)}

FinalizeWrote == run.script = "finalize_streets" /\ run.outcome = "wrote"

(* C3: in the result of finalize_streets (clip-to-region), every street    *)
(* holds only points within the region and at least 2 of them, and a       *)
(* street of the input with fewer than 2 points in the region is absent.   *)
C3_ClipKeepsOnlyInRegionAndAtLeastTwo ==
    FinalizeWrote =>
        /\ \A st \in SeqRange(streetsJson) :
              /\ Len(st.points) >= 2
              /\ \A pt \in SeqRange(st.points) : InRegion(pt, run.region)
        /\ \A st \in SeqRange(run.examined) :
              Len(PointsInRegion(st, run.region)) < 2 => st.id \notin Ids(streetsJson)

\* The scenario: the street [(-150,0), (0,0), (150,0)] against the
\* region [-100,100] x [-100,100] is dropped, while another street is kept
\* with a point removed.
C3_Witness ==
    /\ FinalizeWrote
    /\ run.region = [min_x |-> -1000, max_x |-> 1000, min_z |-> -1000, max_z |-> 1000]
    /\ SecondStreet \in SeqRange(run.examined)
    /\ SecondStreet.id \notin Ids(streetsJson)
    /\ \E st \in SeqRange(run.examined) :
          /\ st.id \in Ids(streetsJson)
          /\ Len(PointsInRegion(st, run.region)) < Len(st.points)

RECURSIVE IsSubseq(_, _)
IsSubseq(a, b) ==
    IF a = <<>> THEN TRUE
    ELSE IF b = <<>> THEN FALSE
    ELSE IF Head(a) = Head(b) THEN IsSubseq(Tail(a), Tail(b))
    ELSE IsSubseq(a, Tail(b))

IdSeq(streets) == [i \in 1..Len(streets) |-> streets[i].id]

FilterWrote ==
    /\ run.script \in {"finalize_streets", "align_streets", "fix_alignment"}
    /\ run.outcome = "wrote"

(* C16: both filter modes are stable.  In what finalize_streets.py         *)
(* (clip-to-region), align_streets.py and fix_alignment.py (any-point)     *)
(* write, the streets stand in the relative order they had in the list the *)
(* filter examined, and the points of each surviving street stand in the   *)
(* relative order they had in that street.                                 *)
C16_FilterIsStable ==
    FilterWrote =>
        /\ IsSubseq(IdSeq(streetsJson), IdSeq(run.examined))
        /\ \A st \in SeqRange(streetsJson) :
              \E e \in SeqRange(run.examined) :
                  e.id = st.id /\ IsSubseq(st.points, e.points)

\* finalize_streets.py kept both streets, the first with a point clipped away.
C16_Witness ==
    /\ FinalizeWrote
    /\ IdSeq(run.examined) = <<1, 2>>
    /\ IdSeq(streetsJson) = <<1, 2>>
    /\ Len(streetsJson[1].points) >= 2
    /\ Len(streetsJson[1].points) < Len(run.examined[1].points)

(* C20: in fix_alignment.py, for any input with at least one building and  *)
(* at least one street, the bounding box of the filtered streets is        *)
(* computed only when a street survived the filter, so the script reaches  *)
(* its write of streets.json.  Violated: when no shifted street has a      *)
(* point within the buildings' bounds and margin, min(new_street_xs) is    *)
(* taken of an empty list and the script ends before the write.            *)
C20_FixAlignmentReachesWrite ==
    (run.script = "fix_alignment" /\ buildingsJson # <<>> /\ run.examined # <<>>)
        => run.outcome = "wrote"

\* Twice the bounding-box midpoint of a set of coordinates
Mid2(S) == SetMin(S) + SetMax(S)

(* C24: in the streets.json that fix_alignment.py writes, the bounding-box *)
(* midpoint of all street points coincides with the bounding-box midpoint  *)
(* of all building footprint points to within 0.1 m on each axis.          *)
(* Violated: the offset centers the streets as loaded, and the filter that *)
(* follows drops whole streets, so the streets written have another        *)
(* bounding box.                                                           *)
C24_WrittenStreetsAreCentered ==
    (run.script = "fix_alignment" /\ run.outcome = "wrote") =>
        /\ Abs(Mid2(street_xs(streetsJson)) - Mid2(bldg_xs(buildingsJson))) <= 2
        /\ Abs(Mid2(street_zs(streetsJson)) - Mid2(bldg_zs(buildingsJson))) <= 2

(* C26: the street-alignment scripts (align_streets.py, fix_alignment.py,  *)
(* finalize_streets.py) only read buildings.json: no run of theirs changes *)
(* the buildings; and finalize_streets.py leaves the coordinates of every  *)
(* street point it retains as they were.                                   *)
C26_StreetScriptsLeaveBuildings ==
    [][ /\ buildingsJson' = buildingsJson
        /\ (nruns' = nruns + 1 /\ run'.script = "finalize_streets"
               /\ run'.outcome = "wrote") =>
               \A st \in SeqRange(streetsJson') :
                   \E e \in SeqRange(streetsJson) :
                       /\ e.id = st.id
                       /\ SeqRange(st.points) \subseteq SeqRange(e.points)
      ]_vars

\* After two runs, the second of finalize_streets.py clipping a street, the
\* one building is the one the runs started with.
C26_Witness ==
    /\ nruns = 2
    /\ FinalizeWrote
    /\ buildingsJson = <<BuildingOf(Box(-700, 700, -700, 700))>>
    /\ streetsJson # <<>>
    /\ Len(streetsJson[1].points) < Len(run.examined[1].points)

(* C27: for the same street list and the same region, every street that   *)
(* clip-to-region (finalize_streets.py) retains is retained by the         *)
(* any-point filter of align_streets.py and of fix_alignment.py; and the   *)
(* clip is idempotent: applied again to what it wrote, with the buildings  *)
(* unchanged, it returns exactly the same streets and points.              *)
C27_ClipWithinAnyPointAndIdempotent ==
    FinalizeWrote =>
        /\ Ids(streetsJson) \subseteq Ids(align_filter(run.examined, run.region))
        /\ Ids(streetsJson) \subseteq Ids(fix_filter(run.examined, run.region))
        /\ finalize_filter(streetsJson, BuildingRegion(buildingsJson, 30 * 10)) = streetsJson

\* finalize_streets.py kept a street whose only points in the region lie on
\* its sides, and dropped another.
C27_Witness ==
    /\ FinalizeWrote
    /\ Len(streetsJson) = 1
    /\ Len(run.examined) = 2
    /\ \A pt \in SeqRange(streetsJson[1].points) :
          pt[1] \in {run.region.min_x, run.region.max_x}

(* C7: a script that uses the anchor street (a name containing 'illinois', *)
(* in any case) to establish or verify its alignment reports an explicit   *)
(* not-found condition when no street name matches, and does not go on to  *)
(* shift coordinates or write output.  Violated by align_streets.py, which *)
(* applies OFFSET_X and writes without looking for the anchor, and by      *)
(* refine_alignment.py, which fails on a division by zero instead of       *)
(* reporting.                                                              *)
C7_AnchorNotFoundIsReported ==
    (run.script \in {"align_streets", "refine_alignment"}
        /\ illinois(run.examined) = <<>>
        /\ run.pc # "bounds")
    => /\ run.report = "not_found"
       /\ run.writes = <<>>

-----------------------------------------------------------------------------
(* Specification SpecRewrite: up to MaxRuns runs of the scripts that write *)
(* both files (rebuild_all.py, recenter_data.py, recenter_correct.py),     *)
(* step by step, over data extracted in the frame centered on              *)
(* DowntownCenter.  OSM holds an Illinois Street way and one more way;     *)
(* the shapefile holds up to two shapes.                                   *)

GeoAt(C, dlon, dlat) == [lon |-> C.lon + dlon, lat |-> C.lat + dlat]

\* The anchor street as OSM names it, once as the anchor query expects it and
\* once not; its nodes put the center on FountainCenter or 100 microdegrees
\* east of it.
IllinoisWays ==
    {[id |-> 1, name |-> name, nodes |-> nodes] :
        name \in {"North Illinois Street", "South ILLINOIS St"},
        nodes \in { <<GeoAt(FountainCenter, 0, 900), GeoAt(FountainCenter, 0, -900)>>,
                    <<GeoAt(FountainCenter, 0, 900), GeoAt(FountainCenter, 200, 0),
                      GeoAt(FountainCenter, 100, -900)>> }}

\* Nodes that, seen from FountainCenter, lie inside the area of "# Filter to
\* area" (x = 87.0), on its sides (z = 600.0, x = 900.0, z = -800.0) and
\* outside it (z = 600.5, x = 904.8).
WayNodes ==
    {GeoAt(FountainCenter, 1000, 0), GeoAt(FountainCenter, 0, -5405),
     GeoAt(FountainCenter, 0, -5410), GeoAt(FountainCenter, 10345, 0),
     GeoAt(FountainCenter, 10400, 0), GeoAt(FountainCenter, 0, 7207)}

\* The Step 2 query is limited to (MIN_LAT, MIN_LON, MAX_LAT, MAX_LON): a way
\* it returns has a node there.
OtherWays ==
    {w \in {[id |-> 2, name |-> "", nodes |-> <<a, b>>] : a \in WayNodes, b \in WayNodes} :
        \E k \in DOMAIN w.nodes : rebuild_in_downtown(w.nodes[k])}

\* A ring of 5 points, w by d microdegrees, its first corner at C + (dlon, dlat)
Ring(C, dlon, dlat, w, d) ==
    <<GeoAt(C, dlon, dlat), GeoAt(C, dlon + w, dlat), GeoAt(C, dlon + w, dlat + d),
      GeoAt(C, dlon, dlat + d), GeoAt(C, dlon, dlat)>>

ShapeHouse == [points |-> Ring(LanduseCenter, 200, 200, 230, 180), raises |-> 0]
ShapeHall == [points |-> Ring(LanduseCenter, -900, -500, 460, 360), raises |-> 0]
ShapeShed == [points |-> Ring(LanduseCenter, 0, 0, 23, 18), raises |-> 0]
ShapeFarAway == [points |-> Ring(LanduseCenter, 20000, 0, 230, 180), raises |-> 0]
ShapeBadFirst == [points |-> Ring(LanduseCenter, 200, 200, 230, 180), raises |-> 1]
ShapeBadSecond == [points |-> Ring(LanduseCenter, 200, 200, 230, 180), raises |-> 2]

Shapefiles ==
    { <<>>, <<ShapeHouse>>, <<ShapeHall, ShapeHouse>>, <<ShapeShed, ShapeHouse>>,
      <<ShapeFarAway, ShapeHall>>, <<ShapeBadFirst, ShapeHouse>>,
      <<ShapeHouse, ShapeBadSecond>> }

ExtractedStreets ==
    << [id |-> 1, name |-> "North Illinois Street",
        points |-> << <<-270, -1000>>, <<-270, 1000>> >>],
       SecondStreet >>

InitRewrite ==
    /\ IdleProject /\ IdleSimplify /\ IdleHeight /\ IdleFetch /\ IdleFeatures /\ IdleWrite
    /\ streetsJson = ExtractedStreets
    /\ buildingsJson = <<BuildingOf(Box(-700, 700, -700, 700))>>
    /\ frames = SameFrame
    /\ run = NoRun
    /\ nruns = 0
    /\ \E w1 \in IllinoisWays, w2 \in OtherWays : osm = [ways |-> <<w1, w2>>]
    /\ shp \in Shapefiles

NextRewrite ==
    \/ RebuildStart
    \/ RebuildAnchorQueryFails
    \/ RebuildAnchorQuery
    \/ RebuildFetchStreetsFails
    \/ RebuildStreets
    \/ RebuildShapefileFails
    \/ RebuildBuildings
    \/ RecenterDataStart
    \/ RecenterDataBuildings
    \/ RecenterDataStreets
    \/ RecenterCorrectStart
    \/ RecenterCorrectBuildings
    \/ RecenterCorrectStreets
    \/ Interrupt

SpecRewrite == InitRewrite /\ [][NextRewrite]_vars

\* The run at hand has written streets.json from the list run.examined.
WroteStreets == \E k \in DOMAIN run.writes : run.writes[k] = "streets.json"

OnBoundary(pt, r) ==
    /\ InRegion(pt, r)
    /\ (pt[1] = r.min_x \/ pt[1] = r.max_x \/ pt[2] = r.min_z \/ pt[2] = r.max_z)

\* The number of in-region points a script's filter asks of a street it keeps.
PointsNeeded(script) == IF script = "finalize_streets" THEN 2 ELSE 1

(* C2: in every script that filters by a bounding region (finalize_streets, *)
(* align_streets, rebuild_all) the region is inclusive on all four sides:   *)
(* a point on a side counts as inside, so a street that owes its in-region  *)
(* points to a point on a side is kept.  Violated by rebuild_all.py, whose  *)
(* area test is strict.                                                     *)
C2_RegionIsInclusive ==
    (run.script \in {"finalize_streets", "align_streets", "rebuild_all"} /\ WroteStreets) =>
        \A st \in SeqRange(run.examined) :
            ((\E pt \in SeqRange(st.points) : OnBoundary(pt, run.region))
                /\ Len(PointsInRegion(st, run.region)) >= PointsNeeded(run.script))
            => st.id \in Ids(streetsJson)

(* C4: in the scripts that keep a street if any point is in the region     *)
(* (align_streets, fix_alignment, rebuild_all), a street is in the result  *)
(* if and only if at least one of its points is within the (inclusive)     *)
(* region, and it is there with all of its points.  Violated by            *)
(* rebuild_all.py for a street whose only in-region points lie on a side.  *)
C4_KeptIffAnyPointInRegion ==
    (run.script \in {"align_streets", "fix_alignment", "rebuild_all"} /\ WroteStreets) =>
        /\ \A st \in SeqRange(run.examined) :
              (\E pt \in SeqRange(st.points) : InRegion(pt, run.region))
                  <=> st \in SeqRange(streetsJson)
        /\ \A st \in SeqRange(streetsJson) : st \in SeqRange(run.examined)

(* C8: in rebuild_all.py, when the anchor query returns no Illinois Street *)
(* coordinates the run ends (exit 1, with the not-found message) before any *)
(* write to streets.json or buildings.json.                                 *)
C8_NoWriteAfterAnchorNotFound ==
    /\ (run.script = "rebuild_all" /\ illinois_coords(osm.ways) = <<>>) =>
          /\ run.writes = <<>>
          /\ run.pc = "step1"
    /\ (run.script = "rebuild_all" /\ run.report = "not_found") =>
          /\ run.outcome = "exit1"
          /\ run.writes = <<>>

\* A second run, of rebuild_all.py, has found no anchor and exited, after a
\* first run that did write.
C8_Witness ==
    /\ run.script = "rebuild_all"
    /\ illinois_coords(osm.ways) = <<>>
    /\ run.report = "not_found"
    /\ run.outcome = "exit1"
    /\ nruns = 2
    /\ frames # SameFrame

(* C9: after any run of a script that rewrites both datasets, a run that   *)
(* fails between its two writes included, streets.json and buildings.json  *)
(* are expressed in the same frame.  Violated by a run stopped between its *)
(* two writes.                                                             *)
C9_BothFilesInOneFrame ==
    (run.script \in {"rebuild_all", "recenter_data", "recenter_correct"}
        /\ run.outcome # "running")
    => frames.streets = frames.buildings

-----------------------------------------------------------------------------
(* Specification SpecFetch: up to MaxFetches runs, each a process of its   *)
(* own, of scripts/fetch-overture-data.py over the same Overture rows and  *)
(* the same center.                                                        *)

MaxFetches == 2
MaxHash == 26

HashValues == 0..MaxHash

RowRing == Ring(OvertureCenter, 100, -300, 230, 180)

\* A triangle whose corners' x (0.0, 13.0, 0.0) and z (0.0, 0.0, 8.9) do not
\* average to a whole number of tenths
RowTriangle ==
    <<GeoAt(OvertureCenter, 0, 0), GeoAt(OvertureCenter, 150, 0),
      GeoAt(OvertureCenter, 0, 80), GeoAt(OvertureCenter, 0, 0)>>

RowLists ==
    { <<[id |-> "a", height |-> h, num_floors |-> f, ring |-> RowRing]>> :
          h \in {0, 12}, f \in {0, 2} }
    \cup { <<[id |-> "a", height |-> 0, num_floors |-> 0, ring |-> RowRing],
             [id |-> "b", height |-> 0, num_floors |-> 3,
              ring |-> <<GeoAt(OvertureCenter, 0, 0), GeoAt(OvertureCenter, 100, 0),
                         GeoAt(OvertureCenter, 0, 0)>>]>>,
           <<[id |-> "c", height |-> 9, num_floors |-> 0, ring |-> RowTriangle]>> }

RowIds(result) == {result[i].id : i \in DOMAIN result}

InitFetch ==
    /\ IdleProject /\ IdleSimplify /\ IdleHeight /\ IdleFiles /\ IdleFeatures /\ IdleWrite
    /\ rows \in RowLists
    /\ documents = <<>>

\* python3 scripts/fetch-overture-data.py, in a process of its own
FetchBuildings ==
    /\ Len(documents) < MaxFetches
    /\ \E hash \in [RowIds(rows) -> HashValues] :
          documents' = Append(documents, fetch_buildings(rows, hash))
    /\ UNCHANGED <<rows, notFetch>>

NextFetch == FetchBuildings

SpecFetch == InitFetch /\ [][NextFetch]_vars

(* C10: re-running a fetch/convert script on identical input records with  *)
(* an identical Reference Frame produces an identical output document: two *)
(* runs of fetch_buildings over the same Overture rows give every building *)
(* the same height and the same colour.  Violated: both derive from        *)
(* hash(id_), which differs from process to process.                       *)
C10_RerunGivesSameDocument ==
    \A i, j \in DOMAIN documents :
        /\ Len(documents[i]) = Len(documents[j])
        /\ \A k \in DOMAIN documents[i] :
              /\ documents[i][k].size[2] = documents[j][k].size[2]
              /\ documents[i][k].color = documents[j][k].color

(* C19: for every Overture building record, if a height is present (a     *)
(* row's height 0 stands for none) the written height, size[1], equals it  *)
(* whatever the floor count; if no height is present but a floor count is, *)
(* the written height is the floor count times 3.5.  Heights are in tenths *)
(* of a metre.                                                             *)
C19_HeightThenFloors ==
    \A d \in DOMAIN documents :
        \A b \in SeqRange(documents[d]) :
            \E row \in SeqRange(rows) :
                /\ row.id = b.id
                /\ row.height # 0 => b.size[2] = row.height * 10
                /\ (row.height = 0 /\ row.num_floors # 0) =>
                       b.size[2] = row.num_floors * 35

\* A row with both a height of 12 m and 2 floors was written 12.0 m high.
C19_Witness ==
    /\ Len(documents) >= 1
    /\ rows[1].height = 12 /\ rows[1].num_floors = 2
    /\ Len(documents[1]) = 1
    /\ documents[1][1].size[2] = 120

-----------------------------------------------------------------------------
(* Specification SpecExtract: the scripts that turn source records into    *)
(* features: extract_downtown.py over a shapefile (up to MaxRuns runs),    *)
(* fetch_roads over the rows of the roads query, fetch_landuse.py over the *)
(* ways of the land-use query.                                             *)

ShapeEmpty == [points |-> <<>>, raises |-> 0]

\* Two points, 8.7 m apart in x and 11.1 m in z
ShapeTwoPoints ==
    [points |-> <<GeoAt(DowntownCenter, 0, 0), GeoAt(DowntownCenter, 100, -100)>>,
     raises |-> 0]

\* A 3-point ring off the tenth-of-a-metre grid's even steps
ShapeTriangle ==
    [points |-> <<GeoAt(DowntownCenter, 3, 0), GeoAt(DowntownCenter, 215, 7),
                  GeoAt(DowntownCenter, 101, -160)>>,
     raises |-> 0]

DowntownShapefiles ==
    { <<>>, <<ShapeHouse>>, <<ShapeEmpty, ShapeHouse>>, <<ShapeTwoPoints, ShapeHouse>>,
      <<ShapeTriangle, ShapeHall>>, <<ShapeBadFirst, ShapeHouse>>,
      <<ShapeHouse, ShapeBadSecond>>, <<ShapeShed, ShapeFarAway, ShapeHall>> }

Line(n) == [i \in 1..n |-> GeoAt(OvertureCenter, 100 * i, 50 * i)]

SegmentLists ==
    { <<[id |-> "r1", name |-> "", class |-> c, type |-> t, coordinates |-> Line(n)],
        [id |-> "r2", name |-> "East Main Street", class |-> "primary",
         type |-> "LineString", coordinates |-> Line(3)]>> :
          c \in {"residential", "footway"}, t \in {"LineString", "MultiLineString"},
          n \in 1..2 }

LanduseWayLists ==
    { <<[id |-> 1, tags |-> tags, nodes |-> [i \in 1..n |-> GeoAt(LanduseCenter, 100 * i, 50 * i * i)]],
        [id |-> 2, tags |-> [landuse |-> "grass", name |-> "Public Square"],
         nodes |-> Ring(LanduseCenter, 0, 0, 200, 200)]>> :
          tags \in { <<>>, [leisure |-> "park"], [building |-> "yes"], [waterway |-> "stream"] },
          n \in 2..3 }

InitExtract ==
    /\ IdleProject /\ IdleSimplify /\ IdleHeight /\ IdleFetch /\ IdleWrite
    /\ streetsJson = ExtractedStreets
    /\ buildingsJson = <<>>
    /\ frames = SameFrame
    /\ run = NoRun
    /\ nruns = 0
    /\ osm = NoOsm
    /\ shp \in DowntownShapefiles
    /\ segments \in SegmentLists
    /\ roadsDoc = NotYet
    /\ landuseWays \in LanduseWayLists
    /\ landuseJson = NotYet

NextExtract ==
    \/ ExtractDowntownReaderFails
    \/ ExtractDowntown
    \/ FetchRoads
    \/ FetchLanduse

SpecExtract == InitExtract /\ [][NextExtract]_vars

ExtractWrote == run.script = "extract_downtown" /\ run.outcome = "done"

(* C11: every feature written to an output file has at least the minimum   *)
(* number of points for its type: a street polyline at least 2, a building *)
(* footprint and a land-use polygon at least 3; a record with fewer is     *)
(* dropped.  Violated by extract_downtown.py, which never counts a         *)
(* footprint's points, and by fetch_roads, which never counts a line's.    *)
C11_FeaturesHaveMinimumPoints ==
    /\ ExtractWrote => \A b \in SeqRange(buildingsJson) : Len(b.footprint) >= 3
    /\ \A st \in SeqRange(roadsDoc.list) : Len(st.points) >= 2
    /\ \A f \in SeqRange(landuseJson.list) : Len(f.points) >= 3

\* The records of the shapefile that have points and whose points all reproject
SoundShapes == SelectSeq(shp, LAMBDA sh : sh.points # <<>> /\ sh.raises = 0)

(* C12: a per-record failure during building extraction never aborts the   *)
(* batch: with a record whose point list is empty, or for which the        *)
(* reprojection of any point fails, the run still ends normally and writes *)
(* the buildings of all other records.  Violated when transform() raises   *)
(* on a point other than the first: the call in "Convert all points" is    *)
(* outside the try.                                                        *)
C12_RecordFailureNeverAbortsBatch ==
    (run.script = "extract_downtown" /\ run.pc # "reader") =>
        /\ run.outcome = "done"
        /\ buildingsJson = downtown_buildings(SoundShapes)

(* C13: every local coordinate written to an output file (footprint and    *)
(* polyline points, the x and z of a building's position and size) is a    *)
(* whole multiple of 0.1 m.  Violated by fetch_buildings, which writes the *)
(* position as the unrounded mean of the footprint's corners.              *)
C13_WrittenCoordinatesAreTenths ==
    \A i \in DOMAIN documents : \A k \in DOMAIN documents[i] :
        /\ documents[i][k].position.sum_x % documents[i][k].position.n = 0
        /\ documents[i][k].position.sum_z % documents[i][k].position.n = 0

-----------------------------------------------------------------------------
(* Specification SpecWrite: one script saving one output file,             *)
(* "with open(path, 'w') as f: json.dump({key: items}, f, indent=2)", step *)
(* by step: the open truncates the file, the encoder hands its chunks to   *)
(* f.write one after the other, the buffer reaches the disk when it fills  *)
(* and at the close.  A document is the list of its items.                 *)

MaxItems == 2

Items == {"a", "b"}

Docs == UNION {[1..n -> Items] : n \in 0..MaxItems}

KeyOf(path) == IF path = "streets.json" THEN "streets" ELSE "buildings"

\* json.dump({key: items}, f, indent=2): the chunks the encoder writes
json_dump(key, items) == <<"{", key, "[">> \o items \o <<"]", "}">>

\* json.load(f)[key] of a reader: the content is one whole document
json_load(content, key, items) == content = json_dump(key, items)

InitWrite ==
    /\ IdleProject /\ IdleSimplify /\ IdleHeight /\ IdleFiles /\ IdleFetch /\ IdleFeatures
    /\ \E path \in {"streets.json", "buildings.json"}, previous \in Docs, doc \in Docs :
          /\ writer = [NoWriter EXCEPT !.path = path, !.previous = previous, !.doc = doc]
          /\ disk = json_dump(KeyOf(path), previous)

\* open(path, 'w'): the file is truncated before anything is written
SaveOpen(script, path) ==
    /\ writer.script = "none"
    /\ writer.path = path
    /\ writer' = [writer EXCEPT !.script = script, !.pc = "dump", !.outcome = "running"]
    /\ disk' = <<>>
    /\ UNCHANGED notWrite

\* align_streets.py "# Save"
AlignStreetsSave == SaveOpen("align_streets", "streets.json")

\* recenter_data.py "# Save buildings"
RecenterDataSave == SaveOpen("recenter_data", "buildings.json")

\* scripts/fetch-overture-data.py main "# Save files": streets.json, the first
FetchOvertureSave == SaveOpen("fetch_overture", "streets.json")

\* json.dump: the next chunk goes to f.write, into the file object's buffer
SaveDump ==
    /\ writer.pc = "dump"
    /\ writer.outcome = "running"
    /\ writer.written < Len(json_dump(KeyOf(writer.path), writer.doc))
    /\ writer' = [writer EXCEPT !.written = @ + 1]
    /\ UNCHANGED <<disk, notWrite>>

\* The buffer fills and is written out: the disk holds what was written so far
SaveFlush ==
    /\ writer.pc = "dump"
    /\ writer.outcome = "running"
    /\ Len(disk) < writer.written
    /\ disk' = SubSeq(json_dump(KeyOf(writer.path), writer.doc), 1, writer.written)
    /\ UNCHANGED <<writer, notWrite>>

\* The end of the with block: the file is flushed and closed
SaveClose ==
    /\ writer.pc = "dump"
    /\ writer.outcome = "running"
    /\ writer.written = Len(json_dump(KeyOf(writer.path), writer.doc))
    /\ disk' = json_dump(KeyOf(writer.path), writer.doc)
    /\ writer' = [writer EXCEPT !.pc = "closed", !.outcome = "done"]
    /\ UNCHANGED notWrite

\* The script is killed where it stands; what the buffer held is lost
SaveInterrupt ==
    /\ writer.outcome = "running"
    /\ writer' = [writer EXCEPT !.outcome = "interrupted"]
    /\ UNCHANGED <<disk, notWrite>>

NextWrite ==
    \/ AlignStreetsSave
    \/ RecenterDataSave
    \/ FetchOvertureSave
    \/ SaveDump
    \/ SaveFlush
    \/ SaveClose
    \/ SaveInterrupt

SpecWrite == InitWrite /\ [][NextWrite]_vars

(* C21: an output JSON file is replaced atomically.  If a script is        *)
(* interrupted at any point while writing streets.json or buildings.json,  *)
(* a reader finds either the complete previous document or the complete    *)
(* new document, never an empty or partially written file.  Violated: the  *)
(* scripts open the file itself with mode 'w', which empties it, and write *)
(* into it.                                                                *)
C21_SaveIsAtomic ==
    writer.outcome = "interrupted" =>
        \/ json_load(disk, KeyOf(writer.path), writer.previous)
        \/ json_load(disk, KeyOf(writer.path), writer.doc)

-----------------------------------------------------------------------------
(* Specification SpecRecenter: up to MaxRuns runs, one after the other, of *)
(* extract_streets.py, recenter_data.py, recenter_correct.py and           *)
(* align_streets.py on the files as extract_streets.py and                 *)
(* extract_downtown.py wrote them, in the frame centered on                *)
(* DowntownCenter, from the OSM ways and the shapefile.                    *)

\* Offsets (microdegrees) whose projections fall on and off whole tenths
SourceOffsets == {<<-1503, 7>>, <<1, -2>>, <<1499, 5>>, <<700, -900>>}

SourceWays ==
    {<<[id |-> 1, name |-> "North Illinois Street",
        nodes |-> <<GeoAt(DowntownCenter, -310, 900), GeoAt(DowntownCenter, -310, -900)>>],
       [id |-> 2, name |-> "West Main Street",
        nodes |-> <<GeoAt(DowntownCenter, a[1], a[2]), GeoAt(DowntownCenter, b[1], b[2])>>]>> :
        a \in SourceOffsets, b \in SourceOffsets}

SourceShapefiles ==
    { <<ShapeHouse>>, <<ShapeTriangle, ShapeHall>>, <<ShapeShed, ShapeHall>> }

InitRecenter ==
    /\ IdleProject /\ IdleSimplify /\ IdleHeight /\ IdleFetch /\ IdleFeatures /\ IdleWrite
    /\ \E ways \in SourceWays : osm = [ways |-> ways]
    /\ shp \in SourceShapefiles
    /\ streetsJson = extract_streets_streets(osm.ways)
    /\ buildingsJson = downtown_buildings(shp)
    /\ frames = SameFrame
    /\ run = NoRun
    /\ nruns = 0

NextRecenter ==
    \/ ExtractStreetsFetchFails
    \/ ExtractStreets
    \/ RecenterDataStart
    \/ RecenterDataBuildings
    \/ RecenterDataStreets
    \/ RecenterCorrectStart
    \/ RecenterCorrectBuildings
    \/ RecenterCorrectStreets
    \/ (Idle /\ AlignStreets)

SpecRecenter == InitRecenter /\ [][NextRecenter]_vars

\* Every point of the list after is the point of the list before at the same
\* place, moved by (dx, dz) tenths of a metre.
PointsMovedBy(before, after, dx, dz) ==
    /\ Len(after) = Len(before)
    /\ \A j \in 1..Len(before) : after[j] = <<before[j][1] + dx, before[j][2] + dz>>

StreetsMovedBy(before, after, dx, dz) ==
    \A i \in 1..Len(after) :
        \E k \in 1..Len(before) :
            /\ before[k].id = after[i].id
            /\ PointsMovedBy(before[k].points, after[i].points, dx, dz)

BuildingsMovedBy(before, after, dx, dz) ==
    /\ Len(after) = Len(before)
    /\ \A i \in 1..Len(before) :
          /\ PointsMovedBy(before[i].footprint, after[i].footprint, dx, dz)
          /\ PointsMovedBy(<<before[i].position>>, <<after[i].position>>, dx, dz)

(* C22: the offset-correction scripts double-shift.  Every run of          *)
(* recenter_data.py or align_streets.py, a run on the script's own output  *)
(* included, moves every stored coordinate again by the same constant      *)
(* offset: recenter_data.py by (87.3, 245.0), its offset (87.261, 244.977) *)
(* rounded to 0.1 m, on buildings.json and on streets.json, and            *)
(* align_streets.py by (27.0, 0.0) on the streets it keeps.  After n runs  *)
(* in a row every point is n offsets from where it started: the scripts    *)
(* are not idempotent.                                                     *)
C22_EveryRunShiftsAgain ==
    [][ /\ (At("recenter_data", "buildings") /\ run'.pc = "streets") =>
              /\ BuildingsMovedBy(buildingsJson, buildingsJson', 873, 2450)
              /\ Len(buildingsJson') = Len(buildingsJson)
        /\ (At("recenter_data", "streets") /\ run'.pc = "end") =>
              /\ StreetsMovedBy(streetsJson, streetsJson', 873, 2450)
              /\ Len(streetsJson') = Len(streetsJson)
        /\ (nruns' = nruns + 1 /\ run'.script = "align_streets" /\ run'.outcome = "wrote") =>
              StreetsMovedBy(streetsJson, streetsJson', 270, 0)
      ]_vars

\* Two runs of recenter_data.py in a row, and two of align_streets.py: the
\* first street's first point stands two offsets from where extract_streets.py
\* put it.
C22_Witness ==
    /\ nruns = 2
    /\ streetsJson # <<>>
    /\ LET first == extract_streets_streets(osm.ways)[1].points[1]
           now == streetsJson[1].points[1]
       IN  \/ /\ run.script = "recenter_data" /\ run.outcome = "done"
              /\ now = <<first[1] + 2 * 873, first[2] + 2 * 2450>>
           \/ /\ run.script = "align_streets" /\ run.outcome = "wrote"
              /\ now = <<first[1] + 2 * 270, first[2]>>

\* The source point projected directly in the frame centered on the fountain
DirectPoint(g) == rebuild_to_local(g.lon, g.lat, FountainCenter.lon, FountainCenter.lat)

\* Within 0.1 m on each axis
Near(p, q) == Abs(p[1] - q[1]) <= 1 /\ Abs(p[2] - q[2]) <= 1

\* The stored points stand, one for one, near the direct projections of the
\* source points.
NearSource(points, source) ==
    /\ Len(points) = Len(source)
    /\ \A j \in 1..Len(points) : Near(points[j], DirectPoint(source[j]))

\* The history says the file stands as one run of recenter_data.py left it.
AfterRecenterData(shift) == shift = <<87300, 245000>>

(* C23: starting from data projected in the old frame (center 38.5200,     *)
(* -89.9839), recenter_data.py and then recenter_correct.py leave every    *)
(* point within 0.1 m of the projection of its source point in the frame   *)
(* centered on the fountain (38.522207, -89.984903): every street point    *)
(* against its OSM node, every footprint point against its shapefile       *)
(* point; the street and building lists keep their lengths.                *)
C23_RecenterThenCorrectIsDirect ==
    [][ /\ (At("recenter_correct", "buildings") /\ run'.pc = "streets"
              /\ AfterRecenterData(frames.buildings)) =>
              /\ Len(buildingsJson') = Len(downtown_buildings(shp))
              /\ \A i \in 1..Len(buildingsJson') :
                    \E k \in 1..Len(shp) :
                        NearSource(buildingsJson'[i].footprint, shp[k].points)
        /\ (At("recenter_correct", "streets") /\ run'.pc = "end"
              /\ AfterRecenterData(frames.streets)) =>
              /\ Len(streetsJson') = Len(osm.ways)
              /\ \A i \in 1..Len(streetsJson') :
                    /\ streetsJson'[i].id = osm.ways[i].id
                    /\ NearSource(streetsJson'[i].points, osm.ways[i].nodes)
      ]_vars

\* recenter_data.py, then recenter_correct.py have run; a stored street
\* point stands 0.1 m east of its direct projection.
C23_Witness ==
    /\ nruns = 2
    /\ run.script = "recenter_correct" /\ run.outcome = "done"
    /\ AfterRecenterData(frames.streets) /\ AfterRecenterData(frames.buildings)
    /\ Len(streetsJson) = 2 /\ Len(buildingsJson) >= 1
    /\ NearSource(streetsJson[2].points, osm.ways[2].nodes)
    /\ streetsJson[2].points[1][1] = DirectPoint(osm.ways[2].nodes[1])[1] + 1

(* C25: in extract_streets.py, if the Overpass request fails the script    *)
(* returns without opening streets.json for writing: the file holds after  *)
(* the failed run what it held before.                                     *)
C25_FetchFailureLeavesFile ==
    [][ (nruns' = nruns + 1 /\ run'.script = "extract_streets"
            /\ run'.report = "fetch_error") =>
            (run'.writes = <<>> /\ streetsJson' = streetsJson) ]_vars

\* The request failed on a streets.json that recenter_data.py had shifted:
\* the file still holds the shifted streets, not a fresh extraction.
C25_Witness ==
    /\ run.script = "extract_streets"
    /\ run.report = "fetch_error"
    /\ run.writes = <<>>
    /\ streetsJson # <<>>
    /\ streetsJson # extract_streets_streets(osm.ways)
    /\ AfterRecenterData(frames.streets)

(* C28: for every input of more than 4 points, simplify_polygon returns at *)
(* most 40 points (at most 39 decimated points and at most one appended    *)
(* closing point), its first point is the input's first point, and the     *)
(* returned points other than an appended closing point are input points   *)
(* in input order.                                                         *)
C28_SimplifyIsBounded ==
    (simplified.fn = "simplify_polygon" /\ Len(poly) > 4) =>
        LET pts == simplified.points
        IN  /\ Len(pts) >= 1
            /\ Len(pts) <= 40
            /\ pts[1] = poly[1]
            /\ \/ Len(pts) <= 39 /\ IsSubseq(pts, poly)
               \/ /\ IsSubseq(SubSeq(pts, 1, Len(pts) - 1), poly)
                  /\ pts[Len(pts)] = pts[1]

\* 39 distinct points: all 39 are kept and the closing point is appended.
C28_Witness ==
    /\ simplified.fn = "simplify_polygon"
    /\ Len(poly) = 39
    /\ Len(simplified.points) = 40
    /\ poly[39] # poly[1]

=============================================================================
